---- MODULE Spec2Model ----
(***************************************************************************)
(* Model of tiny-tools:                                                    *)
(*   jira-backlog-grooming-tool/JIRA-Backlog-Grooming-Tool.py              *)
(*     GroomingQuestions.calculate_score, get_readiness_level,             *)
(*     JiraGroomingPrep.review_ticket, review_backlog,                     *)
(*     generate_review_report                                              *)
(*   devops-maturity-assessment-tool/DevOps-Maturity-Assessment-Tool.py    *)
(*     DevOpsMaturityTool.run_assessment, get_yes_no_input                 *)
(*   patrick/mini.py, patrick/temp.py: call_gpt4                           *)
(*   patrick/patrick.py, mini.py, temp.py: the polling loop of main        *)
(*   patrick/programming_languages.py: display_resources                   *)
(*   WBS-Generator-Tool/src/wbs_generator.py: WBSGenerator.get_input,      *)
(*     get_multiline_input, run, collect_project_data,                     *)
(*     collect_project_details, generate_wbs_table,                        *)
(*     generate_basic_wbs_table, enrich_wbs_with_ai                        *)
(*                                                                         *)
(* Each tool has its own variables and its own specification; the          *)
(* variables of the tools that do not run keep their idle values.          *)
(*                                                                         *)
(* The weights are Python floats (IEEE 754 binary64) written as decimal    *)
(* literals; the score is (score / total_weight) * 100 in float            *)
(* arithmetic.  The float operations are modelled exactly (53-bit          *)
(* significand, round to nearest, ties to even) on multi-limb naturals.    *)
(***************************************************************************)
EXTENDS Integers, Sequences, FiniteSets

(***************************************************************************)
(* Natural numbers of up to NL limbs, least significant limb first.        *)
(***************************************************************************)
LimbBits == 24
Base == 2 ^ LimbBits
NL == 4

BZero == [i \in 1..NL |-> 0]

BFromInt(n) == [i \in 1..NL |-> IF i = 1 THEN n % Base
                                 ELSE IF i = 2 THEN n \div Base ELSE 0]

RECURSIVE BAddC(_, _, _, _)
BAddC(a, b, i, c) ==
    IF i > NL THEN <<>>
    ELSE LET s == a[i] + b[i] + c
         IN  <<s % Base>> \o BAddC(a, b, i + 1, s \div Base)

BAdd(a, b) == BAddC(a, b, 1, 0)

BDouble(a) == BAddC(a, a, 1, 0)

RECURSIVE BSubC(_, _, _, _)
BSubC(a, b, i, c) ==
    IF i > NL THEN <<>>
    ELSE LET d == a[i] - b[i] - c
         IN  IF d < 0 THEN <<d + Base>> \o BSubC(a, b, i + 1, 1)
                      ELSE <<d>> \o BSubC(a, b, i + 1, 0)

BSub(a, b) == BSubC(a, b, 1, 0)

RECURSIVE BMulC(_, _, _, _)
BMulC(a, k, i, c) ==
    IF i > NL THEN <<>>
    ELSE LET s == a[i] * k + c
         IN  <<s % Base>> \o BMulC(a, k, i + 1, s \div Base)

BMulSmall(a, k) == BMulC(a, k, 1, 0)

BHalve(a) == [i \in 1..NL |-> (a[i] \div 2)
                 + (IF i < NL THEN (a[i + 1] % 2) * (Base \div 2) ELSE 0)]

RECURSIVE BCmpFrom(_, _, _)
BCmpFrom(a, b, i) ==
    IF i = 0 THEN 0
    ELSE IF a[i] > b[i] THEN 1
    ELSE IF a[i] < b[i] THEN -1
    ELSE BCmpFrom(a, b, i - 1)

BCmp(a, b) == BCmpFrom(a, b, NL)

\* a * 2^k for 0 <= k < LimbBits, at most 6 bits at a time
RECURSIVE BShlBits(_, _)
BShlBits(a, k) ==
    IF k <= 6 THEN BMulSmall(a, 2 ^ k) ELSE BShlBits(BMulSmall(a, 64), k - 6)

\* a * 2^n
BShl(a, n) ==
    LET k == n \div LimbBits
    IN  BShlBits([i \in 1..NL |-> IF i > k THEN a[i - k] ELSE 0], n % LimbBits)

\* a \div 2^n
BShr(a, n) ==
    LET k == n \div LimbBits
        b == 2 ^ (n % LimbBits)
        up(i) == IF i + k <= NL THEN a[i + k] ELSE 0
    IN  [i \in 1..NL |-> (up(i) \div b) + (up(i + 1) % b) * (Base \div b)]

\* the number of bits of a # 0
BitLen(a) ==
    LET t == CHOOSE i \in 1..NL : a[i] # 0 /\ \A j \in (i + 1)..NL : a[j] = 0
    IN  LimbBits * (t - 1)
          + (CHOOSE k \in 1..LimbBits : 2 ^ (k - 1) <= a[t] /\ a[t] < 2 ^ k)

\* 2^52 and 2^53: the bounds of a normalised binary64 significand
P52 == << 0, 0, 16, 0 >>
P53 == << 0, 0, 32, 0 >>

(***************************************************************************)
(* binary64 values >= 0: [m, e] stands for m * 2^e with 2^52 <= m < 2^53,  *)
(* or m = 0 (and e = 0) for zero.                                          *)
(***************************************************************************)
FZero == [m |-> BZero, e |-> 0]

IsZero(x) == x.m = BZero

\* the binary64 nearest to n * 2^e (ties to even) for n # 0; sticky tells
\* that the exact value is a little above n * 2^e
FRound(n, e, sticky) ==
    LET s == BitLen(n) - 53
    IN  IF s <= 0 THEN [m |-> BShl(n, 0 - s), e |-> e + s]
        ELSE LET h    == BShr(n, s - 1)
                 q    == BHalve(h)
                 rest == sticky \/ BShl(h, s - 1) # n
                 up   == BAdd(q, BFromInt(1))
             IN  IF h[1] % 2 = 1 /\ (rest \/ q[1] % 2 = 1)
                 THEN IF up = P53 THEN [m |-> P52, e |-> e + s + 1]
                                  ELSE [m |-> up, e |-> e + s]
                 ELSE [m |-> q, e |-> e + s]

\* the binary64 nearest to n * 2^e
FMake(n, e) == IF n = BZero THEN FZero ELSE FRound(n, e, FALSE)

\* float(n) for a small int n
FromInt(n) == FMake(BFromInt(n), 0)

\* x + y
FAdd(x, y) ==
    IF IsZero(x) THEN y
    ELSE IF IsZero(y) THEN x
    ELSE IF x.e >= y.e
         THEN FMake(BAdd(BShl(x.m, x.e - y.e), y.m), y.e)
         ELSE FMake(BAdd(BShl(y.m, y.e - x.e), x.m), x.e)

\* one step of binary long division: st.r is the running remainder, st.q
\* the quotient bits produced so far
BDivStep(st, d) ==
    IF BCmp(st.r, d) >= 0
    THEN [r |-> BDouble(BSub(st.r, d)), q |-> BAdd(BDouble(st.q), BFromInt(1))]
    ELSE [r |-> BDouble(st.r), q |-> BDouble(st.q)]

BDivStep4(st, d) == BDivStep(BDivStep(BDivStep(BDivStep(st, d), d), d), d)

\* 4 * k more steps of the division; nothing is left to divide once the
\* remainder is 0
RECURSIVE BDivLoop(_, _, _)
BDivLoop(st, d, k) ==
    IF st.r = BZero \/ k = 0
    THEN [q |-> BShl(st.q, 4 * k), sticky |-> st.r # BZero]
    ELSE BDivLoop(BDivStep4(BDivStep4(st, d), d), d, k - 2)

\* floor(n * 2^55 / d), and whether a remainder is left
BDivBits(n, d) == BDivLoop([r |-> n, q |-> BZero], d, 14)

\* x / y for y # 0
FDiv(x, y) ==
    IF IsZero(x) THEN FZero
    ELSE LET d == BDivBits(x.m, y.m)
         IN  FRound(d.q, x.e - y.e - 55, d.sticky)

\* x * k for a small int k
FMulInt(x, k) ==
    IF IsZero(x) THEN FZero ELSE FMake(BMulSmall(x.m, k), x.e)

\* x >= y
FGeq(x, y) ==
    IF IsZero(y) THEN TRUE
    ELSE IF IsZero(x) THEN FALSE
    ELSE x.e > y.e \/ (x.e = y.e /\ BCmp(x.m, y.m) >= 0)

FLt(x, y) == ~FGeq(x, y)

\* the float a decimal literal with one decimal place denotes (w10 / 10)
FLit10(w10) == FDiv(FromInt(w10), FromInt(10))

F100 == FromInt(100)
F90 == FromInt(90)
F75 == FromInt(75)
F50 == FromInt(50)

(***************************************************************************)
(* State: the class attribute QUESTIONS, the arguments and results of the  *)
(* last calls of the two class methods, and the calls made so far.         *)
(***************************************************************************)
VARIABLES QUESTIONS, answers, result, score, level, calls

\* JiraGroomingPrep.review_backlog: the issues found, the list it returns
\* (references to issues), the answers given to "Continue to next ticket?",
\* its position, and the summary generate_review_report writes
VARIABLES issues, reviewed_items, pc, continue_answers, report

scorerVars == <<QUESTIONS, answers, result, score, level, calls>>

reviewVars == <<issues, reviewed_items, pc, continue_answers, report>>

\* DevOpsMaturityTool: self.domains, self.responses,
\* self.answered_questions, the position of run_assessment and the last
\* line printed
VARIABLES domains, responses, answered_questions, at, printed

assessVars == <<domains, responses, answered_questions, at, printed>>

\* patrick: one call of call_gpt4 of mini.py or temp.py: its arguments, the
\* loop variable, the API calls and sleeps made so far, and what it returned
VARIABLES script, retries, backoff_factor, attempt, events, returned, call_pc

gptVars == <<script, retries, backoff_factor, attempt, events, returned, call_pc>>

\* WBSGenerator: the fields of the object, the method that runs with its
\* arguments, the entries read from the user, what was printed and done,
\* what the method returned, and its position
VARIABLES generator, fn, args, asked, trace, ret, wpc

wbsVars == <<generator, fn, args, asked, trace, ret, wpc>>

\* patrick/programming_languages.py: the object display_resources was last
\* called on, what the calls printed, and what the last call returned
VARIABLES language, console, display_result

langVars == <<language, console, display_result>>

\* patrick: the polling loop of main() of patrick.py, mini.py or temp.py:
\* the input file and the clock its modification time is taken from, the
\* locals of main(), the instructions sent to call_gpt4 and the writes of
\* the user to the input file so far, and the position of the loop
VARIABLES program, input_file, now, last_modified, current_modified,
          instructions, gpt_response, sends, writes, main_pc

pollVars == <<program, input_file, now, last_modified, current_modified,
              instructions, gpt_response, sends, writes, main_pc>>

vars == <<scorerVars, reviewVars, assessVars, gptVars, wbsVars, langVars,
          pollVars>>

\* no question list is loaded
ScorerIdle ==
    /\ QUESTIONS = <<>> /\ answers = <<>> /\ calls = <<>> /\ level = "none"
    /\ result = [kind |-> "none", display_result |-> [m |-> <<0, 0, 0, 0>>, e |-> 0]]
    /\ score = [m |-> <<0, 0, 0, 0>>, e |-> 0]

\* no backlog review is running
ReviewIdle ==
    /\ issues = <<>> /\ reviewed_items = <<>> /\ pc = "off"
    /\ continue_answers = <<>>
    /\ report = [total |-> 0, ready |-> 0, minor |-> 0, major |-> 0]

\* no maturity assessment is running
AssessIdle ==
    /\ domains = <<>> /\ responses = <<>> /\ answered_questions = 0
    /\ at = [phase |-> "off", d |-> 0, a |-> 0, k |-> 0] /\ printed = ""

\* call_gpt4 is not called
GptIdle ==
    /\ script = "none" /\ retries = 0 /\ backoff_factor = 0 /\ attempt = 0
    /\ events = <<>> /\ returned = [kind |-> "pending", content |-> ""]
    /\ call_pc = "off"

\* no method of WBSGenerator runs
WbsIdle ==
    /\ generator = [test_mode |-> FALSE, openai_client |-> "None"]
    /\ fn = "none"
    /\ args = [prompt |-> "", required |-> FALSE, validator |-> "None"]
    /\ asked = <<>> /\ trace = <<>>
    /\ ret = [kind |-> "pending", text |-> "", list |-> <<>>]
    /\ wpc = "off"

\* display_resources is not called
LangIdle == language = "none" /\ console = <<>> /\ display_result = "pending"

\* no polling loop runs
PollIdle ==
    /\ program = "none" /\ now = 0
    /\ input_file = [exists |-> FALSE, content |-> "", mtime |-> 0]
    /\ last_modified = 0 /\ current_modified = 0 /\ instructions = ""
    /\ gpt_response = "pending" /\ sends = <<>> /\ writes = <<>>
    /\ main_pc = "off"

\* the other modules of patrick
moreVars == <<langVars, pollVars>>

MoreIdle == LangIdle /\ PollIdle

\* the tools of the other directories
restVars == <<gptVars, wbsVars, moreVars>>

RestIdle == GptIdle /\ WbsIdle /\ MoreIdle

\* what lies outside the scorer, the backlog review, the assessment,
\* call_gpt4
beyondScorer == <<reviewVars, assessVars, restVars>>

beyondReview == <<assessVars, restVars>>

beyondAssess == <<scorerVars, reviewVars, restVars>>

beyondGpt == <<scorerVars, reviewVars, assessVars, wbsVars, moreVars>>

beyondWbs == <<scorerVars, reviewVars, assessVars, gptVars, moreVars>>

beyondLang == <<scorerVars, reviewVars, assessVars, gptVars, wbsVars, pollVars>>

beyondPoll == <<scorerVars, reviewVars, assessVars, gptVars, wbsVars, langVars>>

(***************************************************************************)
(* GroomingQuestions                                                       *)
(***************************************************************************)
\* the most questions a question list holds
MaxQ == 3
\* the most calls of calculate_score that are remembered
MaxCalls == 3

\* question texts, and weights as they are written in the source: decimal
\* literals with one decimal place, given here in tenths
Texts == {"A", "B"}
WeightLiterals == {0, 9, 81}

\* the float each weight literal denotes
Weight == [w \in WeightLiterals |-> FLit10(w)]

Question == [text : Texts, weight : {Weight[w] : w \in WeightLiterals}]

QuestionSets == UNION {[1..n -> Question] : n \in 0..MaxQ}

\* a Dict[str, bool]: its items in insertion order, no key twice
AnswerDicts ==
    UNION {{d \in [1..n -> [key : Texts, value : BOOLEAN]] :
               \A i, j \in 1..n : i # j => d[i].key # d[j].key} :
           n \in 0..Cardinality(Texts)}

\* dict.values()
values(d) == [i \in 1..Len(d) |-> d[i].value]

\* zip(xs, ys): pairs up to the end of the shorter sequence
zip(xs, ys) ==
    [i \in 1..(IF Len(xs) <= Len(ys) THEN Len(xs) ELSE Len(ys)) |-> <<xs[i], ys[i]>>]

\* sum(...) of floats: left to right, starting from 0
RECURSIVE sum(_)
sum(s) ==
    IF s = <<>> THEN FZero
    ELSE FAdd(sum(SubSeq(s, 1, Len(s) - 1)), s[Len(s)])

total_weight(Q) == sum([i \in 1..Len(Q) |-> Q[i].weight])

\* the weights of the questions whose zipped answer is true
Answered(Q, a) ==
    LET yes == SelectSeq(zip(Q, values(a)), LAMBDA p : p[2])
    IN  [i \in 1..Len(yes) |-> yes[i][1].weight]

\* what a call returns or raises; value is read only when kind = "ok"
Returned(x) == [kind |-> "ok", value |-> x]
Raised(e) == [kind |-> e, value |-> FZero]

\* calculate_score with the first question left out of total_weight
calculate_score_short_total(Q, a) ==
    LET total == sum([i \in 1..(Len(Q) - 1) |-> Q[i + 1].weight])
    IN  IF IsZero(total) THEN Raised("ZeroDivisionError")
        ELSE Returned(FMulInt(FDiv(sum(Answered(Q, a)), total), 100))

\* calculate_score adding the weights of the answers that are false
calculate_score_negated(Q, a) ==
    LET total == total_weight(Q)
        no    == SelectSeq(zip(Q, values(a)), LAMBDA p : ~p[2])
    IN  IF IsZero(total) THEN Raised("ZeroDivisionError")
        ELSE Returned(FMulInt(FDiv(sum([i \in 1..Len(no) |-> no[i][1].weight]),
                                   total), 100))

\* calculate_score returning the fraction, not the percentage
calculate_score_fraction(Q, a) ==
    LET total == total_weight(Q)
    IN  IF IsZero(total) THEN Raised("ZeroDivisionError")
        ELSE Returned(FDiv(sum(Answered(Q, a)), total))

\* calculate_score keeping a running total_weight from call to call
calculate_score_running(Q, a) ==
    LET total == FMulInt(total_weight(Q), Len(calls) + 1)
    IN  IF IsZero(total) THEN Raised("ZeroDivisionError")
        ELSE Returned(FMulInt(FDiv(sum(Answered(Q, a)), total), 100))

calculate_score(Q, a) ==
    LET total == total_weight(Q)
    IN  IF IsZero(total) THEN Raised("ZeroDivisionError")
        ELSE Returned(FMulInt(FDiv(sum(Answered(Q, a)), total), 100))

\* get_readiness_level with score > 75 for the second band
get_readiness_level_strict(s) ==
    IF FGeq(s, F90) THEN "Ready for Sprint"
    ELSE IF FLt(F75, s) THEN "Minor Refinements Needed"
    ELSE IF FGeq(s, F50) THEN "Needs Discussion"
    ELSE "Significant Refinement Required"

\* get_readiness_level testing score >= 50 before score >= 75
get_readiness_level_reordered(s) ==
    IF FGeq(s, F90) THEN "Ready for Sprint"
    ELSE IF FGeq(s, F50) THEN "Needs Discussion"
    ELSE IF FGeq(s, F75) THEN "Minor Refinements Needed"
    ELSE "Significant Refinement Required"

get_readiness_level(s) ==
    IF FGeq(s, F90) THEN "Ready for Sprint"
    ELSE IF FGeq(s, F75) THEN "Minor Refinements Needed"
    ELSE IF FGeq(s, F50) THEN "Needs Discussion"
    ELSE "Significant Refinement Required"

(***************************************************************************)
(* Calls of the two class methods                                          *)
(***************************************************************************)
\* scores a caller passes to get_readiness_level without a scoring call
ProbeScores ==
    {FromInt(n) : n \in {0, 50, 75, 90, 100}} \cup {FLit10(n) : n \in {499, 749, 899}}

Init ==
    /\ QUESTIONS \in QuestionSets
    /\ answers = <<>>
    /\ result = Raised("none")
    /\ score = FZero
    /\ level = "none"
    /\ calls = <<>>
    /\ ReviewIdle /\ AssessIdle /\ RestIdle

\* score = GroomingQuestions.calculate_score(answers)
Score(a) ==
    /\ answers' = a
    /\ result' = calculate_score(QUESTIONS, a)
    /\ score' = FZero
    /\ level' = "none"
    /\ UNCHANGED <<QUESTIONS, beyondScorer>>

\* one call with arguments of the caller's choice
CalculateScore(a) == result.kind = "none" /\ level = "none" /\ Score(a) /\ UNCHANGED calls

\* readiness = GroomingQuestions.get_readiness_level(score), on the score
\* just computed or, when there is none, on a score the caller supplies
GetReadinessLevel(s) ==
    /\ level = "none"
    /\ IF result.kind = "ok" THEN s = result.value ELSE s \in ProbeScores
    /\ score' = s
    /\ level' = get_readiness_level(s)
    /\ UNCHANGED <<QUESTIONS, answers, result, calls, beyondScorer>>

Next ==
    \/ \E a \in AnswerDicts : CalculateScore(a)
    \/ \E s \in ProbeScores \cup {result.value} : GetReadinessLevel(s)

Spec == Init /\ [][Next]_vars

\* the same calls, remembered, on a few question lists
CallQuestionSets ==
    {Q \in QuestionSets : /\ Len(Q) = 2
                          /\ Q[1] = [text |-> "A", weight |-> Weight[9]]
                          /\ Q[2].text = "B"}

InitCalls == Init /\ QUESTIONS \in CallQuestionSets

RepeatedScore(a) ==
    /\ Len(calls) < MaxCalls
    /\ Score(a)
    /\ calls' = Append(calls, [answers |-> a, result |-> result'])

NextCalls == \E a \in AnswerDicts : RepeatedScore(a)

SpecCalls == InitCalls /\ [][NextCalls]_vars

(***************************************************************************)
(* JiraGroomingPrep: review_ticket and review_backlog                      *)
(***************************************************************************)
\* the number of issues MockJiraData.get_mock_issues returns
MockIssues == 3

\* choices=['1', '2', '3', '5', '8', '13', '21']
StoryPointChoices == {1, 2, 3, 5, 8, 13, 21}

\* the keys review_ticket adds to a ticket
ReviewKeys == {"grooming_score", "readiness_level", "evaluation_answers", "story_points"}

\* an issue as search_issues returns it: none of the review's keys is set
\* (has is the set of the review's keys the dict holds)
MockIssue(k) ==
    [key |-> k, has |-> {}, grooming_score |-> FZero, readiness_level |-> "",
     evaluation_answers |-> <<>>, story_points |-> 0]

get_mock_issues(n) == [k \in 1..n |-> MockIssue(k)]

\* question lists in which two questions have the same text
SharedTextQuestionSets ==
    {Q \in QuestionSets : /\ Len(Q) = 2 /\ Q[1].text = "A" /\ Q[2].text = "A"
                          /\ Q[1].weight = Weight[9] /\ ~IsZero(Q[2].weight)}

\* question lists the backlog is reviewed with: two questions "A" and "B",
\* a list whose weights are all zero, and lists with a text used twice
BacklogQuestionSets ==
    CallQuestionSets
        \cup {Q \in QuestionSets : /\ Len(Q) = 2 /\ Q[1].text = "A" /\ Q[2].text = "B"
                                   /\ \A i \in 1..2 : IsZero(Q[i].weight)}
        \cup SharedTextQuestionSets

\* d[k] = v on a dict: an existing key keeps its place
setitem(d, k, v) ==
    IF \E i \in 1..Len(d) : d[i].key = k
    THEN [i \in 1..Len(d) |-> IF d[i].key = k THEN [key |-> k, value |-> v] ELSE d[i]]
    ELSE Append(d, [key |-> k, value |-> v])

\* answers = {}; for question in QUESTIONS: answers[question["text"]] = answer
\* where confirm[i] is what the user answers to the i-th question
RECURSIVE ask(_, _, _)
ask(Q, confirm, n) ==
    IF n = 0 THEN <<>>
    ELSE setitem(ask(Q, confirm, n - 1), Q[n].text, confirm[n])

\* review_ticket asking for the story points at any score
reviewed_ticket_estimated(ticket, a, s, sp) ==
    [ticket EXCEPT !.grooming_score = s,
                   !.readiness_level = get_readiness_level(s),
                   !.evaluation_answers = a,
                   !.story_points = sp,
                   !.has = @ \cup ReviewKeys]

\* the ticket after review_ticket has set its keys
reviewed_ticket(ticket, a, s, sp) ==
    [ticket EXCEPT !.grooming_score = s,
                   !.readiness_level = get_readiness_level(s),
                   !.evaluation_answers = a,
                   !.story_points = IF FGeq(s, F75) THEN sp ELSE @,
                   !.has = @ \cup IF FGeq(s, F75) THEN ReviewKeys
                                  ELSE ReviewKeys \ {"story_points"}]

InitBacklog ==
    /\ QUESTIONS \in BacklogQuestionSets
    /\ answers = <<>>
    /\ result = Raised("none")
    /\ score = FZero
    /\ level = "none"
    /\ calls = <<>>
    /\ issues \in {get_mock_issues(n) : n \in 1..MockIssues}
    /\ reviewed_items = <<>>
    /\ pc = "review"
    /\ continue_answers = <<>>
    /\ report = [total |-> 0, ready |-> 0, minor |-> 0, major |-> 0]
    /\ AssessIdle /\ RestIdle

\* review_ticket writing its keys to every ticket reviewed so far as well
review_ticket_shared(i, a, s, sp) ==
    [k \in 1..Len(issues) |->
        IF k = i \/ "grooming_score" \in issues[k].has
        THEN reviewed_ticket(issues[k], a, s, sp) ELSE issues[k]]

\* the issues after review_ticket has changed its ticket in place
review_ticket(i, a, s, sp) == [issues EXCEPT ![i] = reviewed_ticket(issues[i], a, s, sp)]

\* one turn of the loop of review_backlog: reviewed_ticket = await
\* self.review_ticket(issue); reviewed_items.append(reviewed_ticket).  An
\* exception of calculate_score leaves review_ticket before the ticket is
\* written; review_backlog logs it and raises it again.
ReviewTicket(confirm) ==
    /\ pc = "review"
    /\ LET i == Len(reviewed_items) + 1
           a == ask(QUESTIONS, confirm, Len(QUESTIONS))
           r == calculate_score(QUESTIONS, a)
       IN  /\ answers' = a
           /\ result' = r
           /\ IF r.kind = "ok"
              THEN /\ score' = r.value
                   /\ level' = get_readiness_level(r.value)
                   /\ \E sp \in StoryPointChoices :
                         /\ FGeq(r.value, F75) \/ sp = 1
                         /\ issues' = review_ticket(i, a, r.value, sp)
                   /\ reviewed_items' = Append(reviewed_items, i)
                   /\ pc' = IF Len(reviewed_items') < Len(issues)
                            THEN "continue" ELSE "returned"
              ELSE /\ pc' = "raised"
                   /\ UNCHANGED <<score, level, issues, reviewed_items>>
    /\ UNCHANGED <<QUESTIONS, calls, continue_answers, report, beyondReview>>

\* the loop going on to the next ticket whatever the answer is
after_prompt_goes_on(continue_review) == "review"

\* if not continue_review: break
after_prompt(continue_review) == IF continue_review THEN "review" ELSE "returned"

\* continue_review = await questionary.confirm("Continue to next ticket?")
ContinueReview(continue_review) ==
    /\ pc = "continue"
    /\ continue_answers' = Append(continue_answers, continue_review)
    /\ pc' = after_prompt(continue_review)
    /\ UNCHANGED <<scorerVars, issues, reviewed_items, report, beyondReview>>

\* the summary counting every item of 75 or more as in need of minor
\* refinement
generate_review_report_open_band(items) ==
    LET count(in_band(_)) == Cardinality({n \in 1..Len(items) : in_band(items[n].grooming_score)})
        ready(s) == FGeq(s, F90)
        minor(s) == FGeq(s, F75)
        major(s) == FLt(s, F75)
    IN  [total |-> Len(items), ready |-> count(ready), minor |-> count(minor),
         major |-> count(major)]

\* the Summary table of generate_review_report:
\*   Total Items Reviewed    len(items)
\*   Ready for Sprint        grooming_score >= 90
\*   Needs Minor Refinement  75 <= grooming_score < 90
\*   Needs Major Refinement  grooming_score < 75
generate_review_report(items) ==
    LET count(in_band(_)) == Cardinality({n \in 1..Len(items) : in_band(items[n].grooming_score)})
        ready(s) == FGeq(s, F90)
        minor(s) == FGeq(s, F75) /\ FLt(s, F90)
        major(s) == FLt(s, F75)
    IN  [total |-> Len(items), ready |-> count(ready), minor |-> count(minor),
         major |-> count(major)]

\* main(): grooming_prep.generate_review_report(reviewed_items) with the
\* list review_backlog returned
GenerateReviewReport ==
    /\ pc = "returned"
    /\ report' = generate_review_report([n \in 1..Len(reviewed_items) |->
                                            issues[reviewed_items[n]]])
    /\ pc' = "reported"
    /\ UNCHANGED <<scorerVars, issues, reviewed_items, continue_answers, beyondReview>>

NextBacklog ==
    \/ \E confirm \in [1..Len(QUESTIONS) -> BOOLEAN] : ReviewTicket(confirm)
    \/ \E continue_review \in BOOLEAN : ContinueReview(continue_review)
    \/ GenerateReviewReport

SpecBacklog == InitBacklog /\ [][NextBacklog]_vars

(***************************************************************************)
(* DevOpsMaturityTool: run_assessment and get_yes_no_input                 *)
(***************************************************************************)
\* self.domains: a domain is the list of its areas, an area the number of
\* its indicators (the source has one domain of three areas with 5, 8 and
\* 11 indicators; "additional domains would be defined similarly")
DomainSets ==
    { << <<2, 1, 2>> >>, << <<1, 2>>, <<2>> >>, << <<1>>, <<1>>, <<1>> >> }

\* what the user types, after .lower().strip()
Entries == {"y", "yes", "n", "no", "", "maybe"}

RECURSIVE SumSeq(_)
SumSeq(s) == IF s = <<>> THEN 0 ELSE s[1] + SumSeq(Tail(s))

count_total_questions(D) == SumSeq([d \in 1..Len(D) |-> SumSeq(D[d])])

InitAssessment ==
    /\ ScorerIdle /\ ReviewIdle /\ RestIdle
    /\ domains \in DomainSets
    /\ responses = <<>>
    /\ answered_questions = 0
    /\ at = [phase |-> "constructed", d |-> 0, a |-> 0, k |-> 0]
    /\ printed = ""

\* self.responses[domain_key] = {}: a new key is added last, an existing
\* one is emptied in place
new_domain(resp, d) ==
    IF d <= Len(resp) THEN [resp EXCEPT ![d] = <<>>] ELSE Append(resp, <<>>)

\* self.responses[domain_key][area_key] = []
new_area(resp, d, a) ==
    IF a <= Len(resp[d]) THEN [resp EXCEPT ![d][a] = <<>>]
    ELSE [resp EXCEPT ![d] = Append(@, <<>>)]

\* run_assessment up to its first input(): the first domain and its first
\* area get their empty containers, the header and the prompt are printed
RunAssessment ==
    /\ at.phase = "constructed"
    /\ responses' = new_area(new_domain(responses, 1), 1, 1)
    /\ at' = [phase |-> "asking", d |-> 1, a |-> 1, k |-> 1]
    /\ printed' = "Implemented (y/n)? "
    /\ UNCHANGED <<domains, answered_questions, beyondAssess>>

\* the position after indicator k of area a of domain d, with the
\* containers the loops create on the way there
advance(resp) ==
    IF at.k < domains[at.d][at.a]
    THEN [at |-> [at EXCEPT !.k = @ + 1], resp |-> resp]
    ELSE IF at.a < Len(domains[at.d])
    THEN [at |-> [at EXCEPT !.a = @ + 1, !.k = 1],
          resp |-> new_area(resp, at.d, at.a + 1)]
    ELSE IF at.d < Len(domains)
    THEN [at |-> [at EXCEPT !.d = @ + 1, !.a = 1, !.k = 1],
          resp |-> new_area(new_domain(resp, at.d + 1), at.d + 1, 1)]
    ELSE [at |-> [phase |-> "returned", d |-> 0, a |-> 0, k |-> 0], resp |-> resp]

\* self.responses[domain_key][area_key].append({'id': ..., 'implemented': response})
record_response(implemented) ==
    [responses EXCEPT ![at.d][at.a] =
        Append(@, [id |-> <<at.d, at.a, at.k>>, implemented |-> implemented])]

\* one entry at the prompt of get_yes_no_input: an accepted one is counted,
\* returned and recorded by run_assessment, which goes on to the next
\* indicator; any other prints the hint and asks again
GetYesNoInput(response) ==
    /\ at.phase = "asking"
    /\ IF response \in {"y", "yes", "n", "no"}
       THEN LET next == advance(record_response(response \in {"y", "yes"}))
            IN  /\ answered_questions' = answered_questions + 1
                /\ responses' = next.resp
                /\ at' = next.at
                /\ printed' = IF next.at.phase = "asking"
                              THEN "Implemented (y/n)? " ELSE printed
       ELSE /\ printed' = "Please enter 'y' or 'n'"
            /\ UNCHANGED <<responses, answered_questions, at>>
    /\ UNCHANGED <<domains, beyondAssess>>

NextAssessment ==
    \/ RunAssessment
    \/ \E response \in Entries : GetYesNoInput(response)

SpecAssessment == InitAssessment /\ [][NextAssessment]_vars

\* the most calls of run_assessment on one tool object
MaxRuns == 2

\* run_assessment called again on the same object after it has returned:
\* the loops start over and self.responses[domain_key] = {} empties the
\* first domain; nothing else of the object is reset
RunAssessmentAgain ==
    /\ at.phase = "returned"
    /\ answered_questions < MaxRuns * count_total_questions(domains)
    /\ responses' = new_area(new_domain(responses, 1), 1, 1)
    /\ at' = [phase |-> "asking", d |-> 1, a |-> 1, k |-> 1]
    /\ printed' = "Implemented (y/n)? "
    /\ UNCHANGED <<domains, answered_questions, beyondAssess>>

NextReassessment == NextAssessment \/ RunAssessmentAgain

SpecReassessment == InitAssessment /\ [][NextReassessment]_vars

\* either tool reviewing its items
InitReviews == InitBacklog \/ InitAssessment

NextReviews == NextBacklog \/ NextAssessment

SpecReviews == InitReviews /\ [][NextReviews]_vars

(***************************************************************************)
(* patrick: call_gpt4(user_input, retries, backoff_factor)                 *)
(***************************************************************************)
\* the most retries a caller passes
MaxRetries == 3

\* the two scripts that define call_gpt4 with a retry loop
Scripts == {"mini", "temp"}

\* backoff_factor: mini.py sleeps 2 ** attempt, temp.py takes the factor
\* as an argument (default 2)
BackoffFactors == {2, 3}

\* response.choices[0].message.content of a call that succeeds
Contents == {"{}", "text"}

\* exceptions of openai.chat.completions.create
ApiErrors == {"RateLimitError", "APIConnectionError"}

\* the API call of one attempt and how it ended, and a time.sleep
Created(content) == [op |-> "create", raised |-> "", content |-> content, seconds |-> 0]

Failed(e) == [op |-> "create", raised |-> e, content |-> "", seconds |-> 0]

Slept(seconds) == [op |-> "sleep", raised |-> "", content |-> "", seconds |-> seconds]

RECURSIVE Pow(_, _)
Pow(b, k) == IF k = 0 THEN 1 ELSE b * Pow(b, k - 1)

InitGpt ==
    /\ ScorerIdle /\ ReviewIdle /\ AssessIdle /\ WbsIdle /\ MoreIdle
    /\ script \in Scripts
    /\ retries \in 0..MaxRetries
    /\ backoff_factor \in IF script = "mini" THEN {2} ELSE BackoffFactors
    /\ attempt = 0
    /\ events = <<>>
    /\ returned = [kind |-> "pending", content |-> ""]
    /\ call_pc = "loop"

\* an attempt whose API call returns, the loop going on all the same
AttemptSucceeds_goes_on(content) ==
    /\ call_pc = "loop"
    /\ attempt < retries
    /\ events' = Append(events, Created(content))
    /\ attempt' = attempt + 1
    /\ UNCHANGED <<script, retries, backoff_factor, returned, call_pc, beyondGpt>>

\* an attempt whose API call returns: return response.choices[0].message.content
AttemptSucceeds(content) ==
    /\ call_pc = "loop"
    /\ attempt < retries
    /\ events' = Append(events, Created(content))
    /\ returned' = [kind |-> "content", content |-> content]
    /\ call_pc' = "returned"
    /\ UNCHANGED <<script, retries, backoff_factor, attempt, beyondGpt>>

\* time.sleep(backoff_factor ** attempt) sleeping after every failure
backoff_always(e) == Append(Append(events, Failed(e)), Slept(Pow(backoff_factor, attempt)))

\* except Exception: if attempt < retries - 1: time.sleep(backoff_factor ** attempt)
backoff(e) ==
    IF attempt < retries - 1
    THEN Append(Append(events, Failed(e)), Slept(Pow(backoff_factor, attempt)))
    ELSE Append(events, Failed(e))

\* an attempt whose API call raises.  Before the last attempt both scripts
\* sleep and go round the loop; at the last one temp.py returns None from
\* the handler, mini.py leaves the loop
AttemptFails(e) ==
    /\ call_pc = "loop"
    /\ attempt < retries
    /\ events' = backoff(e)
    /\ IF script = "temp" /\ ~(attempt < retries - 1)
       THEN /\ returned' = [kind |-> "None", content |-> ""]
            /\ call_pc' = "returned"
            /\ UNCHANGED attempt
       ELSE /\ attempt' = attempt + 1
            /\ UNCHANGED <<returned, call_pc>>
    /\ UNCHANGED <<script, retries, backoff_factor, beyondGpt>>

\* range(retries) is used up: mini.py logs the failure and returns None,
\* temp.py (where this happens for retries = 0 only) falls off the end of
\* the function, which returns None
LoopEnds ==
    /\ call_pc = "loop"
    /\ ~(attempt < retries)
    /\ returned' = [kind |-> "None", content |-> ""]
    /\ call_pc' = "returned"
    /\ UNCHANGED <<script, retries, backoff_factor, attempt, events, beyondGpt>>

NextGpt ==
    \/ \E content \in Contents : AttemptSucceeds(content)
    \/ \E e \in ApiErrors : AttemptFails(e)
    \/ LoopEnds

SpecGpt == InitGpt /\ [][NextGpt]_vars

(***************************************************************************)
(* WBSGenerator: get_input and get_multiline_input                         *)
(***************************************************************************)
\* the most entries the user makes at one prompt
MaxEntries == 3

\* what the user types at a prompt, and str.strip() of it
RawEntries == {"", "  ", "ok", " ok ", "2024-01-01", "High "}

strip(raw) ==
    CASE raw = "  " -> ""
      [] raw = " ok " -> "ok"
      [] raw = "High " -> "High"
      [] OTHER -> raw

\* validator: None, self.validate_date (strptime with "%Y-%m-%d"), or
\* lambda x: x.lower() in ["high", "medium", "low"]
Validators == {"None", "validate_date", "level"}

validate(validator, value) ==
    CASE validator = "validate_date" -> value = "2024-01-01"
      [] validator = "level" -> value = "High"
      [] OTHER -> TRUE

\* prompts of get_input: one that _get_test_inputs knows under
\* "project_info" and one it does not
InputPrompts == {"Project Name", "Test prompt"}

\* prompts of get_multiline_input
MultilinePrompts ==
    {"Enter project requirements (one per line)", "Enter subtasks (one per line)",
     "Notes"}

\* self.test_inputs["project_info"]
test_project_info(prompt) ==
    IF prompt = "Project Name" THEN [found |-> TRUE, value |-> "Test Project"]
    ELSE [found |-> FALSE, value |-> ""]

\* get_test_input("project_info", prompt): the dict's value, or "" for a
\* prompt it does not hold
get_test_input(prompt) ==
    IF test_project_info(prompt).found THEN test_project_info(prompt).value ELSE ""

\* self.test_inputs["requirements"], and the subtasks of the deliverables
test_requirements ==
    << "Requirement 1: User Authentication", "Requirement 2: Data Storage",
       "Requirement 3: API Integration" >>

test_subtasks ==
    << <<"Design DB schema", "Implement OAuth", "Add password reset">>,
       <<"Design API", "Implement routing", "Add rate limiting">> >>

Pending(lines) == [kind |-> "pending", text |-> "", list |-> lines]

ReturnedValue(value) == [kind |-> "value", text |-> value, list |-> <<>>]

ReturnedList(lines) == [kind |-> "list", text |-> "", list |-> lines]

RaisedError(e) == [kind |-> "raised", text |-> e, list |-> <<>>]

InitInput ==
    /\ ScorerIdle /\ ReviewIdle /\ AssessIdle /\ GptIdle /\ MoreIdle
    /\ generator \in [test_mode : BOOLEAN, openai_client : {"None"},
                      test_input_counter : 0..Len(test_subtasks)]
    /\ fn \in {"get_input", "get_multiline_input"}
    /\ args \in IF fn = "get_input"
                THEN [prompt : InputPrompts, required : BOOLEAN, validator : Validators]
                ELSE [prompt : MultilinePrompts, required : {FALSE}, validator : {"None"}]
    /\ asked = <<>>
    /\ trace = <<>>
    /\ ret = Pending(<<>>)
    /\ wpc = "called"

\* get_input in test mode: the canned value is printed and returned
TestInput ==
    /\ fn = "get_input" /\ wpc = "called" /\ generator.test_mode
    /\ ret' = ReturnedValue(get_test_input(args.prompt))
    /\ trace' = Append(trace, args.prompt)
    /\ wpc' = "returned"
    /\ UNCHANGED <<generator, fn, args, asked, beyondWbs>>

\* one entry at Prompt.ask of get_input
InputEntry(raw) ==
    /\ fn = "get_input" /\ wpc = "called" /\ ~generator.test_mode
    /\ Len(asked) < MaxEntries
    /\ asked' = Append(asked, raw)
    /\ LET value == strip(raw)
       IN  IF value = "" /\ ~args.required
           THEN /\ ret' = ReturnedValue(value)
                /\ wpc' = "returned"
                /\ UNCHANGED trace
           ELSE IF value = ""
           THEN /\ trace' = Append(trace, "This field is required. Please provide a value.")
                /\ UNCHANGED <<ret, wpc>>
           ELSE IF ~validate(args.validator, value)
           THEN /\ trace' = IF args.validator = "validate_date"
                            THEN Append(trace, "Invalid date format. Please use YYYY-MM-DD")
                            ELSE trace
                /\ UNCHANGED <<ret, wpc>>
           ELSE /\ ret' = ReturnedValue(value)
                /\ wpc' = "returned"
                /\ UNCHANGED trace
    /\ UNCHANGED <<generator, fn, args, beyondWbs>>

\* KeyboardInterrupt at Prompt.ask: printed and raised again
InputInterrupt ==
    /\ fn = "get_input" /\ wpc = "called" /\ ~generator.test_mode
    /\ trace' = Append(trace, "Operation cancelled by user")
    /\ ret' = RaisedError("KeyboardInterrupt")
    /\ wpc' = "raised"
    /\ UNCHANGED <<generator, fn, args, asked, beyondWbs>>

\* get_multiline_input in test mode: the canned list of the category the
\* prompt names, no list for any other prompt
TestLines ==
    /\ fn = "get_multiline_input" /\ wpc = "called" /\ generator.test_mode
    /\ IF args.prompt = "Enter project requirements (one per line)"
       THEN /\ ret' = ReturnedList(test_requirements)
            /\ trace' = Append(trace, args.prompt)
            /\ wpc' = "returned"
       ELSE IF args.prompt = "Enter subtasks (one per line)"
       THEN /\ UNCHANGED trace
            /\ IF generator.test_input_counter < Len(test_subtasks)
               THEN /\ ret' = ReturnedList(test_subtasks[generator.test_input_counter + 1])
                    /\ wpc' = "returned"
               ELSE /\ ret' = RaisedError("IndexError")
                    /\ wpc' = "raised"
       ELSE /\ ret' = ReturnedList(<<>>)
            /\ wpc' = "returned"
            /\ UNCHANGED trace
    /\ UNCHANGED <<generator, fn, args, asked, beyondWbs>>

\* lines.append(line) appending the line as it was typed
append_raw(lines, raw) == Append(lines, raw)

\* line = input().strip(); lines.append(line)
append_line(lines, raw) == Append(lines, strip(raw))

\* one line at input() of get_multiline_input: an empty one ends the loop
LineEntry(raw) ==
    /\ fn = "get_multiline_input" /\ wpc = "called" /\ ~generator.test_mode
    /\ Len(asked) < MaxEntries
    /\ asked' = Append(asked, raw)
    /\ IF strip(raw) = ""
       THEN /\ ret' = ReturnedList(ret.list)
            /\ wpc' = "returned"
       ELSE /\ ret' = Pending(append_line(ret.list, raw))
            /\ UNCHANGED wpc
    /\ UNCHANGED <<generator, fn, args, trace, beyondWbs>>

\* KeyboardInterrupt at input(): "Input cancelled", the loop ends and the
\* lines read so far are returned
LineInterrupt ==
    /\ fn = "get_multiline_input" /\ wpc = "called" /\ ~generator.test_mode
    /\ trace' = Append(trace, "Input cancelled")
    /\ ret' = ReturnedList(ret.list)
    /\ wpc' = "returned"
    /\ UNCHANGED <<generator, fn, args, asked, beyondWbs>>

NextInput ==
    \/ TestInput
    \/ \E raw \in RawEntries : InputEntry(raw)
    \/ InputInterrupt
    \/ TestLines
    \/ \E raw \in RawEntries : LineEntry(raw)
    \/ LineInterrupt

SpecInput == InitInput /\ [][NextInput]_vars

(***************************************************************************)
(* WBSGenerator: run, collect_project_data, collect_project_details        *)
(***************************************************************************)
\* the most deliverables, risks and resources the user enters
MaxItems == 2

\* the steps of the two collectors, in the order of the code
DataSteps == <<"collect_project_info", "collect_requirements", "collect_constraints">>

DetailSteps == <<"collect_deliverables", "collect_risks", "collect_resources">>

\* where run waits: at a Confirm.ask, at a Prompt.ask of get_input, at an
\* input() of get_multiline_input, or in a call that computes
ConfirmPoints ==
    {"confirm_start", "confirm_save", "confirm_preview", "confirm_enrich",
     "confirm_save_enriched", "confirm_preview_enriched"}

InputPoints == {"project_info", "deliverable", "risk", "resource"}

MultilinePoints == {"requirements", "constraints", "subtasks"}

ComputePoints == {"collecting_test", "generating", "enriching"}

InitRun ==
    /\ ScorerIdle /\ ReviewIdle /\ AssessIdle /\ GptIdle /\ MoreIdle
    /\ generator \in [test_mode : BOOLEAN, openai_client : {"None", "client"},
                      deliverables : {0}, risks : {0}, resources : {0},
                      completed : {0}, total : {0}]
    /\ fn = "run"
    /\ args = [prompt |-> "", required |-> FALSE, validator |-> "None"]
    /\ asked = <<>>
    /\ trace = <<>>
    /\ ret = Pending(<<>>)
    /\ wpc = "confirm_start"

\* with Progress(...) as progress: task = progress.add_task(..., total=3);
\* progress.stop(); and the first step begins
progress_enter(evs, step) ==
    evs \o <<"progress.start", "add_task", "progress.stop", step>>

\* progress.start(); progress.update(task, advance=1) with the display
\* left running for the next step
progress_advance_live(evs, step) ==
    evs \o <<"progress.start", "progress.update", step>>

\* progress.start(); progress.update(task, advance=1); progress.stop() and
\* the next step begins
progress_advance(evs, step) ==
    evs \o <<"progress.start", "progress.update", "progress.stop", step>>

\* the last progress.update; the with block ends, which stops the display
progress_exit(evs) ==
    evs \o <<"progress.start", "progress.update", "progress.stop">>

\* the state after the step that waited at point p has ended, given the
\* events so far: the next waiting point, the fields and the events
after_step(p, evs) ==
    CASE p = "project_info" ->
            [wpc |-> "requirements", g |-> [generator EXCEPT !.completed = 1],
             events |-> progress_advance(evs, DataSteps[2])]
      [] p = "requirements" ->
            [wpc |-> "constraints", g |-> [generator EXCEPT !.completed = 2],
             events |-> progress_advance(evs, DataSteps[3])]
      [] p = "constraints" ->
            [wpc |-> "deliverable", g |-> [generator EXCEPT !.completed = 0],
             events |-> progress_enter(
                            Append(progress_exit(evs), "Project data collection completed."),
                            DetailSteps[1])]
      [] p = "subtasks" ->
            [wpc |-> "deliverable", g |-> [generator EXCEPT !.deliverables = @ + 1],
             events |-> evs]
      [] p = "deliverable" ->
            [wpc |-> "risk", g |-> [generator EXCEPT !.completed = 1],
             events |-> progress_advance(evs, DetailSteps[2])]
      [] p = "risk" ->
            [wpc |-> "resource", g |-> [generator EXCEPT !.completed = 2],
             events |-> progress_advance(evs, DetailSteps[3])]
      [] p = "resource" ->
            [wpc |-> "generating", g |-> [generator EXCEPT !.completed = 3],
             events |-> Append(progress_exit(evs), "Project details collection completed.")]

Goto(s) ==
    /\ wpc' = s.wpc
    /\ generator' = s.g
    /\ trace' = s.events

\* Confirm.ask("Ready to start collecting project data?"): on yes
\* collect_project_data begins, in test mode without a progress display
ConfirmStart(yes) ==
    /\ fn = "run" /\ wpc = "confirm_start"
    /\ IF ~yes
       THEN /\ wpc' = "returned"
            /\ ret' = ReturnedValue("None")
            /\ UNCHANGED <<generator, trace>>
       ELSE /\ IF generator.test_mode
               THEN /\ wpc' = "collecting_test"
                    /\ trace' = Append(trace, "start")
                    /\ UNCHANGED generator
               ELSE /\ wpc' = "project_info"
                    /\ trace' = progress_enter(Append(trace, "start"), DataSteps[1])
                    /\ generator' = [generator EXCEPT !.total = 3]
            /\ UNCHANGED ret
    /\ UNCHANGED <<fn, args, asked, beyondWbs>>

\* test mode: both collectors run on the canned data without waiting
CollectTestData ==
    /\ fn = "run" /\ wpc = "collecting_test"
    /\ wpc' = "generating"
    /\ generator' = [generator EXCEPT !.deliverables = 2, !.risks = 2, !.resources = 2]
    /\ trace' = trace \o DataSteps \o DetailSteps
    /\ UNCHANGED <<fn, args, asked, ret, beyondWbs>>

\* the entries at a prompt of get_input are made: the project information is
\* complete, or a deliverable, risk or resource is named (more) or the
\* empty name ends the section
InputDone(more) ==
    /\ fn = "run" /\ wpc \in InputPoints
    /\ IF wpc = "deliverable" /\ more /\ generator.deliverables < MaxItems
       THEN wpc' = "subtasks" /\ UNCHANGED <<generator, trace>>
       ELSE IF wpc = "risk" /\ more /\ generator.risks < MaxItems
       THEN /\ generator' = [generator EXCEPT !.risks = @ + 1]
            /\ UNCHANGED <<wpc, trace>>
       ELSE IF wpc = "resource" /\ more /\ generator.resources < MaxItems
       THEN /\ generator' = [generator EXCEPT !.resources = @ + 1]
            /\ UNCHANGED <<wpc, trace>>
       ELSE Goto(after_step(wpc, trace))
    /\ UNCHANGED <<fn, args, asked, ret, beyondWbs>>

\* the empty line at an input() of get_multiline_input
LinesDone ==
    /\ fn = "run" /\ wpc \in MultilinePoints
    /\ Goto(after_step(wpc, trace))
    /\ UNCHANGED <<fn, args, asked, ret, beyondWbs>>

\* wbs_content = self.generate_wbs_markdown(), which may raise on the data
\* entered (int(deliverable['duration']), strptime of the start date)
Generated(ok) ==
    /\ fn = "run" /\ wpc = "generating"
    /\ IF ok
       THEN /\ trace' = Append(trace, "generated")
            /\ wpc' = "confirm_save"
            /\ UNCHANGED ret
       ELSE /\ wpc' = "raised"
            /\ ret' = RaisedError("ValueError")
            /\ UNCHANGED trace
    /\ UNCHANGED <<generator, fn, args, asked, beyondWbs>>

\* the Confirm.ask prompts after the document is generated
Confirm(yes) ==
    /\ fn = "run" /\ wpc \in ConfirmPoints \ {"confirm_start"}
    /\ trace' = CASE yes /\ wpc \in {"confirm_save", "confirm_save_enriched"}
                       -> Append(trace, "saved")
                  [] yes /\ wpc \in {"confirm_preview", "confirm_preview_enriched"}
                       -> Append(trace, "previewed")
                  [] OTHER -> trace
    /\ wpc' = CASE wpc = "confirm_save" -> "confirm_preview"
                [] wpc = "confirm_preview" ->
                      IF generator.openai_client # "None" THEN "confirm_enrich"
                      ELSE "returned"
                [] wpc = "confirm_enrich" -> IF yes THEN "enriching" ELSE "returned"
                [] wpc = "confirm_save_enriched" -> "confirm_preview_enriched"
                [] wpc = "confirm_preview_enriched" -> "returned"
    /\ ret' = IF wpc' = "returned" THEN ReturnedValue("None") ELSE ret
    /\ UNCHANGED <<generator, fn, args, asked, beyondWbs>>

\* wbs_content = self.enrich_wbs_with_ai(wbs_content), which returns in
\* every case of the API call
Enriched ==
    /\ fn = "run" /\ wpc = "enriching"
    /\ trace' = Append(trace, "enriched")
    /\ wpc' = "confirm_save_enriched"
    /\ UNCHANGED <<generator, fn, args, asked, ret, beyondWbs>>

\* KeyboardInterrupt where run waits.  At the first prompt it is outside the
\* try; get_input prints and raises it again; get_multiline_input prints
\* "Input cancelled", ends its loop and returns the lines read, so that the
\* step ends as on an empty line; anywhere else it reaches the handler of
\* run
Interrupt ==
    /\ fn = "run" /\ wpc \in ConfirmPoints \cup InputPoints \cup MultilinePoints \cup ComputePoints
    /\ IF wpc = "confirm_start"
       THEN /\ trace' = Append(trace, "KeyboardInterrupt")
            /\ wpc' = "raised"
            /\ ret' = RaisedError("KeyboardInterrupt")
            /\ UNCHANGED generator
       ELSE IF wpc \in MultilinePoints
       THEN /\ Goto(after_step(wpc, trace \o <<"KeyboardInterrupt", "Input cancelled">>))
            /\ UNCHANGED ret
       ELSE /\ trace' = trace \o <<"KeyboardInterrupt">>
                          \o (IF wpc \in InputPoints
                              THEN <<"Operation cancelled by user">> ELSE <<>>)
                          \o <<"Process cancelled by user.">>
            /\ wpc' = "returned"
            /\ ret' = ReturnedValue("None")
            /\ UNCHANGED generator
    /\ UNCHANGED <<fn, args, asked, beyondWbs>>

NextRun ==
    \/ \E yes \in BOOLEAN : ConfirmStart(yes)
    \/ CollectTestData
    \/ \E more \in BOOLEAN : InputDone(more)
    \/ LinesDone
    \/ \E ok \in BOOLEAN : Generated(ok)
    \/ \E yes \in BOOLEAN : Confirm(yes)
    \/ Enriched
    \/ Interrupt

SpecRun == InitRun /\ [][NextRun]_vars

(***************************************************************************)
(* WBSGenerator: generate_wbs_table and enrich_wbs_with_ai                 *)
(***************************************************************************)
\* self.project_info: empty as after construction, without a description,
\* or as collect_project_info leaves it
ProjectInfos == {"empty", "no description", "complete"}

\* self.deliverables: the duration as it was typed (no validator checks it)
\* and the number of subtasks
Deliverables ==
    UNION {[1..n -> [duration : {"2", "two"}, subtasks : 0..2]] : n \in 0..2}

\* wbs_content, as the parts it is made of
Documents == {<<"# Work Breakdown Structure: Test">>, <<>>}

\* what openai_client.chat.completions.create does
ApiOutcomes == {Created(c) : c \in Contents} \cup {Failed(e) : e \in ApiErrors}

PrintedLine(text) == [op |-> "print", raised |-> "", content |-> text, seconds |-> 0]

\* the rows of the table, by task id: 1.0, and i.0 with its subtasks i.j
\* for the deliverables counted from 2
RECURSIVE TableRows(_, _)
TableRows(ds, i) ==
    IF i > Len(ds) THEN <<>>
    ELSE <<<<i + 1, 0>>>> \o [j \in 1..ds[i].subtasks |-> <<i + 1, j>>]
             \o TableRows(ds, i + 1)

\* generate_basic_wbs_table: strptime(self.project_info['start_date']) and
\* int(deliverable['duration']) raise on what they cannot read
generate_basic_wbs_table(g) ==
    IF g.project_info = "empty" THEN RaisedError("KeyError")
    ELSE IF \E i \in 1..Len(g.deliverables) : g.deliverables[i].duration # "2"
    THEN RaisedError("ValueError")
    ELSE ReturnedList(<<<<1, 0>>>> \o TableRows(g.deliverables, 1))

\* the API is called: there is a client and the prompt could be built
\* (self.project_info['name'], ['start_date'], ['description'])
calls_api(g) == g.openai_client # "None" /\ g.project_info = "complete"

\* generate_wbs_table letting the error of the API call through
generate_wbs_table_propagates(g, api) ==
    IF calls_api(g) /\ api.raised = "" THEN ReturnedValue(api.content)
    ELSE IF calls_api(g) THEN RaisedError(api.raised)
    ELSE generate_basic_wbs_table(g)

generate_wbs_table(g, api) ==
    IF calls_api(g) /\ api.raised = "" THEN ReturnedValue(api.content)
    ELSE generate_basic_wbs_table(g)

\* enrich_wbs_with_ai returning the analysis alone
enrich_wbs_with_ai_alone(g, wbs_content, api) ==
    IF g.openai_client # "None" /\ api.raised = ""
    THEN ReturnedList(<<"\n\n## AI-Enhanced Project Analysis\n\n", api.content>>)
    ELSE ReturnedList(wbs_content)

\* f"{wbs_content}\n\n## AI-Enhanced Project Analysis\n\n{analysis}"
enrich_wbs_with_ai(g, wbs_content, api) ==
    IF g.openai_client # "None" /\ api.raised = ""
    THEN ReturnedList(wbs_content
                        \o <<"\n\n## AI-Enhanced Project Analysis\n\n", api.content>>)
    ELSE ReturnedList(wbs_content)

InitAi ==
    /\ ScorerIdle /\ ReviewIdle /\ AssessIdle /\ GptIdle /\ MoreIdle
    /\ generator \in [test_mode : {FALSE}, openai_client : {"None", "client"},
                      project_info : ProjectInfos, deliverables : Deliverables]
    /\ fn \in {"generate_wbs_table", "enrich_wbs_with_ai"}
    /\ args \in [wbs_content : IF fn = "enrich_wbs_with_ai" THEN Documents ELSE {<<>>}]
    /\ asked = <<>>
    /\ trace = <<>>
    /\ ret = Pending(<<>>)
    /\ wpc = "called"

\* one call of generate_wbs_table, the API answering with api if it is
\* called; an exception in the try block is printed
GenerateWbsTable(api) ==
    /\ fn = "generate_wbs_table" /\ wpc = "called"
    /\ ret' = generate_wbs_table(generator, api)
    /\ wpc' = IF ret'.kind = "raised" THEN "raised" ELSE "returned"
    /\ trace' = IF generator.openai_client = "None" THEN trace
                ELSE IF ~calls_api(generator)
                THEN <<PrintedLine("Error generating WBS table: KeyError")>>
                ELSE IF api.raised = "" THEN <<api>>
                ELSE <<api, PrintedLine("Error generating WBS table: " \o api.raised)>>
    /\ UNCHANGED <<generator, fn, args, asked, beyondWbs>>

\* one call of enrich_wbs_with_ai
EnrichWbsWithAi(api) ==
    /\ fn = "enrich_wbs_with_ai" /\ wpc = "called"
    /\ ret' = enrich_wbs_with_ai(generator, args.wbs_content, api)
    /\ wpc' = "returned"
    /\ trace' = IF generator.openai_client = "None" THEN trace
                ELSE IF api.raised = "" THEN <<api>>
                ELSE <<api, PrintedLine("Error during AI analysis: " \o api.raised)>>
    /\ UNCHANGED <<generator, fn, args, asked, beyondWbs>>

NextAi ==
    \/ \E api \in ApiOutcomes : GenerateWbsTable(api)
    \/ \E api \in ApiOutcomes : EnrichWbsWithAi(api)

SpecAi == InitAi /\ [][NextAi]_vars

(***************************************************************************)
(* patrick/programming_languages.py: display_resources                     *)
(***************************************************************************)
\* calls of display_resources whose output is kept
MaxDisplays == 5

Languages == {"ProgrammingLanguage", "Python", "Java"}

\* the method of each class: what it prints and what it returns; a method
\* whose body ends without a return statement returns None
display_resources(cls) ==
    CASE cls = "Python" ->
           [prints |-> <<"Python resources: Tutorial, Examples, Tips">>,
            returns |-> "None"]
      [] cls = "Java" ->
           [prints |-> <<"Java resources: Tutorial, Examples, Tips">>,
            returns |-> "None"]
      [] OTHER -> [prints |-> <<>>, returns |-> "None"]

InitLang ==
    /\ LangIdle /\ PollIdle
    /\ ScorerIdle /\ ReviewIdle /\ AssessIdle /\ GptIdle /\ WbsIdle

\* cls().display_resources()
DisplayResources(cls) ==
    /\ Len(console) + Len(display_resources(cls).prints) <= MaxDisplays
    /\ language' = cls
    /\ console' = console \o display_resources(cls).prints
    /\ display_result' = display_resources(cls).returns
    /\ UNCHANGED beyondLang

NextLang == \E cls \in Languages : DisplayResources(cls)

SpecLang == InitLang /\ [][NextLang]_vars

(***************************************************************************)
(* patrick: the polling loop of main() in patrick.py, mini.py and temp.py  *)
(***************************************************************************)
\* the last reading of the clock, the most writes of the user to the input
\* file and the most calls of call_gpt4 that are followed
MaxTime == 3
MaxWrites == 2
MaxSends == 3

\* patrick.py reads the file on every poll; mini.py and temp.py compare
\* its modification time first
Programs == {"patrick", "mini", "temp"}

\* what the user writes to input.txt
UserTexts == {"", "  ", "ok", "High "}

\* what call_gpt4 hands back to main: nothing (every attempt failed; the
\* call_gpt4 of patrick.py returns the text "Error: ..." instead), a text
\* without a JSON block, a block json.loads rejects, the object {}, an
\* object none of whose files could be written, an object with a file that
\* was written
Responses(prog) ==
    {IF prog = "patrick" THEN "Error" ELSE "None",
     "no json", "bad json", "empty object", "unsaved files", "files"}

\* parse_json_response(response): None, or the dict json.loads returns
parse_json_response(resp) ==
    IF resp \in {"None", "Error", "no json", "bad json"} THEN "None" ELSE resp

\* truth value of a parsed response: None and {} are false
truthy(project_files) == project_files \notin {"None", "empty object"}

\* save_project_files of mini.py and temp.py: success > 0; it returns False
\* at once for None and for {}
save_project_files(project_files) == project_files = "files"

\* whether main clears the input file after the response
\*   patrick.py: if project_files and isinstance(project_files, dict)
\*   mini.py:    if project_files and save_project_files(project_files)
\*   temp.py:    if not response: continue; if save_project_files(...)
clears(prog, resp) ==
    LET project_files == parse_json_response(resp)
    IN  CASE prog = "patrick" -> truthy(project_files)
          [] prog = "mini" -> truthy(project_files) /\ save_project_files(project_files)
          [] OTHER -> resp # "None" /\ save_project_files(project_files)

\* a write of text to the file at the present time
written(text) == [exists |-> TRUE, content |-> text, mtime |-> now]

\* main() has written the instructions entered at startup to input.txt
\* (patrick.py always, mini.py and temp.py when the file did not exist;
\* otherwise they find the file as the user left it)
InitPoll ==
    /\ ScorerIdle /\ ReviewIdle /\ AssessIdle /\ GptIdle /\ WbsIdle /\ LangIdle
    /\ program \in Programs
    /\ now = 1
    /\ \E text \in UserTexts :
          input_file = [exists |-> TRUE, mtime |-> 1,
                        content |-> IF program = "patrick" THEN strip(text) ELSE text]
    /\ last_modified = 0
    /\ current_modified = 0
    /\ instructions = ""
    /\ gpt_response = "pending"
    /\ sends = <<>>
    /\ writes = <<>>
    /\ main_pc = "poll"

\* the clock goes on
Tick ==
    /\ now < MaxTime
    /\ now' = now + 1
    /\ UNCHANGED <<program, input_file, last_modified, current_modified,
                   instructions, gpt_response, sends, writes, main_pc, beyondPoll>>

UserWrites == Len(SelectSeq(writes, LAMBDA w : w.by = "user"))

\* the user saves new instructions to input.txt
UserWrite(text) ==
    /\ UserWrites < MaxWrites
    /\ input_file' = written(text)
    /\ writes' = Append(writes, [by |-> "user", content |-> text])
    /\ UNCHANGED <<program, now, last_modified, current_modified, instructions,
                   gpt_response, sends, main_pc, beyondPoll>>

\* the user deletes input.txt
UserDelete ==
    /\ UserWrites < MaxWrites
    /\ input_file.exists
    /\ input_file' = [input_file EXCEPT !.exists = FALSE]
    /\ writes' = Append(writes, [by |-> "user", content |-> "deleted"])
    /\ UNCHANGED <<program, now, last_modified, current_modified, instructions,
                   gpt_response, sends, main_pc, beyondPoll>>

\* call_gpt4(instructions) is entered
sent(text) ==
    [text |-> text, version |-> Len(writes),
     mtime |-> current_modified, last |-> last_modified]

\* patrick.py: one poll: read the file ("" when it is missing) and call
\* call_gpt4 when the stripped text is not empty; then sleep
ReadFile ==
    /\ program = "patrick"
    /\ main_pc = "poll"
    /\ Len(sends) < MaxSends
    /\ instructions' = IF input_file.exists THEN strip(input_file.content) ELSE ""
    /\ IF instructions' # ""
       THEN /\ sends' = Append(sends, sent(instructions'))
            /\ main_pc' = "call"
       ELSE UNCHANGED <<sends, main_pc>>
    /\ UNCHANGED <<program, input_file, now, last_modified, current_modified,
                   gpt_response, writes, beyondPoll>>

\* mini.py, temp.py: a missing file is created empty and the loop starts
\* over; otherwise current_modified = input_path.stat().st_mtime
StatFile ==
    /\ program \in {"mini", "temp"}
    /\ main_pc = "poll"
    /\ IF ~input_file.exists
       THEN /\ input_file' = written("")
            /\ writes' = Append(writes, [by |-> "main", content |-> ""])
            /\ UNCHANGED <<current_modified, main_pc>>
       ELSE /\ current_modified' = input_file.mtime
            /\ main_pc' = IF current_modified' > last_modified THEN "read" ELSE "poll"
            /\ UNCHANGED <<input_file, writes>>
    /\ UNCHANGED <<program, now, last_modified, instructions, gpt_response,
                   sends, beyondPoll>>

\* mini.py, temp.py: instructions = input_path.read_text().strip();
\* last_modified = current_modified; call_gpt4 when instructions is not
\* empty.  read_text of a file deleted in the meantime raises, which the
\* handler of the loop logs.
ReadModified ==
    /\ program \in {"mini", "temp"}
    /\ main_pc = "read"
    /\ Len(sends) < MaxSends
    /\ IF ~input_file.exists
       THEN /\ main_pc' = "poll"
            /\ UNCHANGED <<instructions, last_modified, sends>>
       ELSE /\ instructions' = strip(input_file.content)
            /\ last_modified' = current_modified
            /\ IF instructions' # ""
               THEN /\ sends' = Append(sends, sent(instructions'))
                    /\ main_pc' = "call"
               ELSE /\ main_pc' = "poll"
                    /\ UNCHANGED sends
    /\ UNCHANGED <<program, input_file, now, current_modified, gpt_response,
                   writes, beyondPoll>>

\* call_gpt4 returns; the response is parsed, the files are saved, and the
\* input file is cleared or left alone
Respond(resp) ==
    /\ main_pc = "call"
    /\ gpt_response' = resp
    /\ IF clears(program, resp)
       THEN /\ input_file' = written("")
            /\ writes' = Append(writes, [by |-> "main", content |-> ""])
       ELSE UNCHANGED <<input_file, writes>>
    /\ main_pc' = "poll"
    /\ UNCHANGED <<program, now, last_modified, current_modified, instructions,
                   sends, beyondPoll>>

NextPoll ==
    \/ Tick
    \/ \E text \in UserTexts : UserWrite(text)
    \/ UserDelete
    \/ ReadFile
    \/ StatFile
    \/ ReadModified
    \/ \E resp \in Responses(program) : Respond(resp)

SpecPoll == InitPoll /\ [][NextPoll]_vars

(***************************************************************************)
(* WBSGenerator.generate_basic_wbs_table: the dates of the rows            *)
(***************************************************************************)
\* the longest duration of a deliverable in weeks, and the most subtasks
\* of a deliverable
MaxWeeks == 3
MaxSubtasks == 3

\* a date string "%Y-%m-%d" is written as its three numbers <<y, m, d>>;
\* a datetime is held as its proleptic Gregorian ordinal (day 1 is
\* 0001-01-01), which is what timedelta arithmetic works on
StartDates ==
    {<<2024, 1, 1>>, <<2024, 2, 20>>, <<2023, 2, 20>>, <<2023, 12, 25>>,
     <<2023, 2, 29>>}

is_leap(y) == y % 4 = 0 /\ (y % 100 # 0 \/ y % 400 = 0)

days_in_month(y, m) ==
    IF m = 2 THEN (IF is_leap(y) THEN 29 ELSE 28)
    ELSE IF m \in {4, 6, 9, 11} THEN 30 ELSE 31

\* _DAYS_BEFORE_MONTH of a common year
DAYS_BEFORE_MONTH == <<0, 31, 59, 90, 120, 151, 181, 212, 243, 273, 304, 334>>

days_before_year(y) ==
    (y - 1) * 365 + (y - 1) \div 4 - (y - 1) \div 100 + (y - 1) \div 400

days_before_month(y, m) ==
    DAYS_BEFORE_MONTH[m] + (IF m > 2 /\ is_leap(y) THEN 1 ELSE 0)

\* datetime.strptime(s, "%Y-%m-%d"): the ordinal of the date, or 0 for a
\* ValueError (no such day)
strptime(s) ==
    IF s[2] \in 1..12 /\ s[3] \in 1..days_in_month(s[1], s[2])
    THEN days_before_year(s[1]) + days_before_month(s[1], s[2]) + s[3]
    ELSE 0

\* date.strftime('%Y-%m-%d'): year, month and day of an ordinal, found as
\* datetime finds them, by cycles of 400, 100, 4 and 1 years
strftime(ordinal) ==
    LET n0 == ordinal - 1
        n400 == n0 \div 146097
        r400 == n0 % 146097
        n100 == r400 \div 36524
        r100 == r400 % 36524
        n4 == r100 \div 1461
        r4 == r100 % 1461
        n1 == r4 \div 365
        n == r4 % 365
        year == n400 * 400 + 1 + n100 * 100 + n4 * 4 + n1
        leapyear == n1 = 3 /\ (n4 # 24 \/ n100 = 3)
        guess == (n + 50) \div 32
        before(m) == DAYS_BEFORE_MONTH[m] + (IF m > 2 /\ leapyear THEN 1 ELSE 0)
        month == IF before(guess) > n THEN guess - 1 ELSE guess
    IN  IF n1 = 4 \/ n100 = 4 THEN <<year - 1, 12, 31>>
        ELSE <<year, month, n - before(month) + 1>>

\* the durations as they are typed (get_input has no validator for them)
Digits == <<"0", "1", "2", "3", "4", "5", "6", "7", "8", "9">>

Durations == {Digits[w + 1] : w \in 0..MaxWeeks} \cup {"two"}

\* int(deliverable['duration']); -1 stands for a ValueError
int(s) ==
    IF \E k \in 1..Len(Digits) : Digits[k] = s
    THEN (CHOOSE k \in 1..Len(Digits) : Digits[k] = s) - 1
    ELSE -1

ScheduledDeliverables ==
    UNION {[1..n -> [duration : Durations, subtasks : 0..MaxSubtasks]] : n \in 0..2}

\* a row of the table: task id i.j, duration, start date and end date
TableRow(i, j, duration, current_date, end_date) ==
    [id |-> <<i, j>>, duration |-> duration,
     start |-> strftime(current_date), end |-> strftime(end_date)]

\* duration // len(deliverable['subtasks']), rounding up
subtask_duration_rounded_up(duration, n) == (duration + n - 1) \div n

\* subtask_duration = duration // len(deliverable['subtasks'])
subtask_duration(duration, n) == duration \div n

\* the rows of the subtasks j..n of deliverable i, the j-th starting at
\* current_date
RECURSIVE subtask_rows(_, _, _, _, _)
subtask_rows(i, j, n, duration, current_date) ==
    IF j > n THEN <<>>
    ELSE LET subtask_end == current_date + subtask_duration(duration, n)
         IN  <<TableRow(i, j, subtask_duration(duration, n), current_date, subtask_end)>>
                 \o subtask_rows(i, j + 1, n, duration, subtask_end)

\* the rows of the deliverables k.. of ds, the k-th (task k + 1) starting at
\* current_date; after its subtasks current_date = end_date
RECURSIVE deliverable_rows(_, _, _)
deliverable_rows(ds, k, current_date) ==
    IF k > Len(ds) THEN <<>>
    ELSE LET duration == int(ds[k].duration) * 5
             end_date == current_date + duration
         IN  <<TableRow(k + 1, 0, duration, current_date, end_date)>>
                 \o subtask_rows(k + 1, 1, ds[k].subtasks, duration, current_date)
                 \o deliverable_rows(ds, k + 1, end_date)

\* the rows generate_basic_wbs_table joins, or the error it raises
basic_wbs_rows(g) ==
    IF strptime(g.project_info.start_date) = 0 THEN RaisedError("ValueError")
    ELSE IF \E k \in 1..Len(g.deliverables) : int(g.deliverables[k].duration) = -1
    THEN RaisedError("ValueError")
    ELSE LET start_date == strptime(g.project_info.start_date)
         IN  ReturnedList(<<TableRow(1, 0, 5, start_date, start_date + 5)>>
                              \o deliverable_rows(g.deliverables, 1, start_date))

InitSchedule ==
    /\ ScorerIdle /\ ReviewIdle /\ AssessIdle /\ GptIdle /\ MoreIdle
    /\ generator \in [test_mode : {FALSE}, openai_client : {"None"},
                      project_info : [start_date : StartDates],
                      deliverables : ScheduledDeliverables]
    /\ fn = "generate_basic_wbs_table"
    /\ args = [prompt |-> "", required |-> FALSE, validator |-> "None"]
    /\ asked = <<>>
    /\ trace = <<>>
    /\ ret = Pending(<<>>)
    /\ wpc = "called"

\* one call of generate_basic_wbs_table
GenerateBasicWbsTable ==
    /\ fn = "generate_basic_wbs_table" /\ wpc = "called"
    /\ ret' = basic_wbs_rows(generator)
    /\ wpc' = IF ret'.kind = "raised" THEN "raised" ELSE "returned"
    /\ UNCHANGED <<generator, fn, args, asked, trace, beyondWbs>>

NextSchedule == GenerateBasicWbsTable

SpecSchedule == InitSchedule /\ [][NextSchedule]_vars

(***************************************************************************)
(* Properties                                                              *)
(***************************************************************************)
Scored == result.kind # "none"

Classified == level # "none"

Keys(d) == {d[i].key : i \in 1..Len(d)}

Lookup(d, k) == d[CHOOSE i \in 1..Len(d) : d[i].key = k].value

\* exactly one answer for every question: as many items as questions, the
\* keys being the questions' texts
Complete(Q, d) == Len(d) = Len(Q) /\ Keys(d) = {Q[i].text : i \in 1..Len(Q)}

\* complete, and stored in the order of the questions
InOrder(Q, d) == Len(d) = Len(Q) /\ \A i \in 1..Len(Q) : d[i].key = Q[i].text

\* C1: scoring with an answer set whose size differs from the number of
\* questions fails with an IncompleteAnswerSet error and gives no score
\* (checked on question lists whose total weight is not zero).
C1_SizeMismatchRaises ==
    (Scored /\ Len(answers) # Len(QUESTIONS) /\ ~IsZero(total_weight(QUESTIONS)))
        => result.kind = "IncompleteAnswerSet"

\* the weights of the questions whose own answer (looked up by the
\* question's text) is true
AnsweredByText(Q, d) ==
    LET yes == SelectSeq(Q, LAMBDA q : Lookup(d, q.text))
    IN  [i \in 1..Len(yes) |-> yes[i].weight]

\* C2: for every complete answer set the score is (sum of the weights of the
\* questions answered true) / (sum of all weights) * 100, every question's
\* weight going with that question's own answer.
C2_ScoreFormula ==
    (Scored /\ Complete(QUESTIONS, answers) /\ ~IsZero(total_weight(QUESTIONS)))
        => /\ result.kind = "ok"
           /\ result.value = FMulInt(FDiv(sum(AnsweredByText(QUESTIONS, answers)),
                                          total_weight(QUESTIONS)), 100)

\* C3 as stated: score >= 90 gives "Ready", 75 <= score < 90 gives "Minor
\* Refinement Needed", 50 <= score < 75 gives "Needs Discussion", score < 50
\* gives "Significant Refinement Required".
C3_LabelsAsStated ==
    Classified =>
        /\ FGeq(score, F90) => level = "Ready"
        /\ (FGeq(score, F75) /\ FLt(score, F90)) => level = "Minor Refinement Needed"
        /\ (FGeq(score, F50) /\ FLt(score, F75)) => level = "Needs Discussion"
        /\ FLt(score, F50) => level = "Significant Refinement Required"

\* C3 amended: the same bands with the labels the code returns: "Ready for
\* Sprint", "Minor Refinements Needed", "Needs Discussion", "Significant
\* Refinement Required"; a score of exactly 75.0 is in the second band.
C3_Labels ==
    Classified =>
        /\ FGeq(score, F90) => level = "Ready for Sprint"
        /\ (FGeq(score, F75) /\ FLt(score, F90)) => level = "Minor Refinements Needed"
        /\ (FGeq(score, F50) /\ FLt(score, F75)) => level = "Needs Discussion"
        /\ FLt(score, F50) => level = "Significant Refinement Required"

C3_Witness == Classified /\ score = F75 /\ level = "Minor Refinements Needed"

\* the four bands, highest first, and the level of each
InBand(b, s) ==
    CASE b = 1 -> FGeq(s, F90)
      [] b = 2 -> FGeq(s, F75) /\ FLt(s, F90)
      [] b = 3 -> FGeq(s, F50) /\ FLt(s, F75)
      [] b = 4 -> FLt(s, F50)

ReadinessLevels ==
    << "Ready for Sprint", "Minor Refinements Needed", "Needs Discussion",
       "Significant Refinement Required" >>

\* C4: every score in [0, 100] that is classified lies in exactly one of the
\* four bands, and the level returned is the level of that band.
C4_ExactlyOneBand ==
    (Classified /\ FGeq(F100, score))
        => \E b \in 1..4 : /\ InBand(b, score)
                           /\ \A c \in 1..4 : InBand(c, score) => c = b
                           /\ level = ReadinessLevels[b]

\* a score strictly inside a band other than the lowest was classified
C4_Witness ==
    /\ Classified /\ Scored
    /\ InBand(2, score) /\ score # F75
    /\ level = ReadinessLevels[2]

\* C5: with non-negative weights, every score returned is in [0, 100].
C5_ScoreInRange ==
    result.kind = "ok" => FGeq(result.value, FZero) /\ FGeq(F100, result.value)

C5_Witness ==
    /\ result.kind = "ok" /\ Len(answers) # Len(QUESTIONS)
    /\ ~IsZero(result.value) /\ result.value # F100

\* C6: when the total weight is zero, scoring fails with a
\* DegenerateQuestionSet error instead of dividing by zero.
C6_ZeroTotalRaisesDegenerate ==
    (Scored /\ IsZero(total_weight(QUESTIONS))) => result.kind = "DegenerateQuestionSet"

FlipToTrue(d, i) == [d EXCEPT ![i].value = TRUE]

\* C7: changing a single answer from false to true never decreases the score.
C7_Monotonic ==
    result.kind = "ok" =>
        \A i \in 1..Len(answers) :
            ~answers[i].value =>
                LET flipped == calculate_score(QUESTIONS, FlipToTrue(answers, i))
                IN  flipped.kind = "ok" /\ FGeq(flipped.value, result.value)

\* a complete answer set where flipping an answer raises the score
C7_Witness ==
    /\ result.kind = "ok" /\ InOrder(QUESTIONS, answers)
    /\ \E i \in 1..Len(answers) :
          /\ ~answers[i].value
          /\ FLt(result.value,
                 calculate_score(QUESTIONS, FlipToTrue(answers, i)).value)

\* the decimal literal (in tenths) a question's weight was written as
Literal(q) == CHOOSE w \in WeightLiterals : Weight[w] = q.weight

RECURSIVE SumInt(_)
SumInt(s) == IF s = <<>> THEN 0 ELSE s[1] + SumInt(Tail(s))

\* the total weight and the weight answered true, of the weights as written
WrittenTotal(Q) == SumInt([i \in 1..Len(Q) |-> Literal(Q[i])])

WrittenEarned(Q, d) ==
    SumInt([i \in 1..Len(Q) |-> IF Lookup(d, Q[i].text) THEN Literal(Q[i]) ELSE 0])

\* the true answers sum to exactly 0.9 of the total weight
NineTenths(Q, d) ==
    InOrder(Q, d) /\ WrittenTotal(Q) > 0 /\ 10 * WrittenEarned(Q, d) = 9 * WrittenTotal(Q)

\* C8: when the true-answered questions sum to exactly 0.9 of the total
\* weight, the score is exactly 90.0 and classifies into the highest band
\* ("Ready"); a score of 89.9 classifies into the second band ("Minor
\* Refinement Needed").  The bands are named by the levels the code returns.
C8_BoundaryExact ==
    /\ (Scored /\ NineTenths(QUESTIONS, answers)) =>
          /\ result.kind = "ok" /\ result.value = F90
          /\ Classified => level = ReadinessLevels[1]
    /\ (Classified /\ score = FLit10(899)) => level = ReadinessLevels[2]

AllAnswers(d, v) == \A i \in 1..Len(d) : d[i].value = v

\* a complete answer set over a question list with a total weight above zero
Scoreable == Scored /\ Complete(QUESTIONS, answers) /\ ~IsZero(total_weight(QUESTIONS))

SameAssignment(Q, d1, d2) ==
    /\ Complete(Q, d1) /\ Complete(Q, d2)
    /\ \A k \in 1..Len(Q) : Lookup(d1, Q[k].text) = Lookup(d2, Q[k].text)

\* C11: two answer sets that assign the same boolean to every question give
\* the same score, in whatever order their answers are stored.
C11_OrderIndependent ==
    \A i, j \in 1..Len(calls) :
        SameAssignment(QUESTIONS, calls[i].answers, calls[j].answers)
            => calls[i].result = calls[j].result

\* what review_ticket recorded on every reviewed ticket comes from that
\* ticket's own answers: they are a dict over the question texts that was
\* filled by this review alone, the score is the score of these answers
\* and the level is the level of this score; a ticket not yet reviewed
\* carries none of the review's keys
RecordedFromOwnAnswers ==
    \A i \in 1..Len(issues) :
        IF \E n \in 1..Len(reviewed_items) : reviewed_items[n] = i
        THEN /\ Len(issues[i].evaluation_answers) <= Len(QUESTIONS)
             /\ Keys(issues[i].evaluation_answers)
                    = {QUESTIONS[k].text : k \in 1..Len(QUESTIONS)}
             /\ calculate_score(QUESTIONS, issues[i].evaluation_answers)
                    = Returned(issues[i].grooming_score)
             /\ issues[i].readiness_level = get_readiness_level(issues[i].grooming_score)
        ELSE issues[i] = MockIssue(i)

\* a step leaves every ticket reviewed before it as it is
EarlierTicketsKept ==
    \A n \in 1..Len(reviewed_items) :
        /\ reviewed_items'[n] = reviewed_items[n]
        /\ issues'[reviewed_items[n]] = issues[reviewed_items[n]]

\* the responses of every area are those of its own indicators, in order
ResponsesOfOwnIndicators ==
    \A d \in 1..Len(responses) : \A a \in 1..Len(responses[d]) :
        /\ Len(responses[d][a]) <= domains[d][a]
        /\ \A k \in 1..Len(responses[d][a]) : responses[d][a][k].id = <<d, a, k>>

\* a step keeps every response recorded so far, and an area it enters
\* starts with no responses
EarlierResponsesKept ==
    /\ \A d \in 1..Len(responses) : \A a \in 1..Len(responses[d]) :
          /\ Len(responses'[d][a]) >= Len(responses[d][a])
          /\ \A k \in 1..Len(responses[d][a]) : responses'[d][a][k] = responses[d][a][k]
    /\ \A d \in 1..Len(responses') : \A a \in 1..Len(responses'[d]) :
          (d > Len(responses) \/ a > Len(responses[d])) => responses'[d][a] = <<>>

\* C12: each reviewed item (ticket, indicator area) gets a fresh answer set;
\* what is recorded for an item depends on that item's answers only, and
\* reviewing a later item leaves the records of every earlier item unchanged.
C12_ItemsIndependent ==
    /\ [](RecordedFromOwnAnswers /\ ResponsesOfOwnIndicators)
    /\ [][EarlierTicketsKept /\ EarlierResponsesKept]_vars

\* a second ticket is reviewed with other answers and another score than
\* the first
C12_Witness ==
    /\ Len(reviewed_items) = 2
    /\ issues[1].evaluation_answers # issues[2].evaluation_answers
    /\ issues[1].grooming_score # issues[2].grooming_score
    /\ "story_points" \in issues[1].has

\* the API calls made so far, in order, and those that raised
ApiCalls == SelectSeq(events, LAMBDA ev : ev.op = "create")

FailedCalls == SelectSeq(events, LAMBDA ev : ev.op = "create" /\ ev.raised # "")

FailedUpTo(i) == Len(SelectSeq(SubSeq(events, 1, i), LAMBDA ev : ev.raised # ""))

\* C14: the wait after the k-th failed attempt (k from 0) is
\* backoff_factor^k seconds, a wait happens only between two attempts, and
\* there is no wait after the final failed attempt.
C14_BackoffBetweenAttempts ==
    (call_pc # "off") =>
        /\ \A i \in 1..Len(events) :
              events[i].op = "sleep"
                  => /\ i > 1 /\ events[i - 1].op = "create" /\ events[i - 1].raised # ""
                     /\ events[i].seconds = Pow(backoff_factor, FailedUpTo(i) - 1)
                     /\ FailedUpTo(i) < retries
                     /\ i < Len(events) => events[i + 1].op = "create"
                     /\ i = Len(events) => (call_pc = "loop" /\ attempt < retries)
        /\ \A i \in 1..Len(events) :
              (events[i].raised # "" /\ FailedUpTo(i) < retries)
                  => /\ i < Len(events)
                     /\ events[i + 1] = Slept(Pow(backoff_factor, FailedUpTo(i) - 1))
        /\ \A i \in 1..Len(events) :
              (events[i].raised # "" /\ FailedUpTo(i) = retries) => i = Len(events)

\* temp.py with factor 3 gave up after three failures and two waits
C14_Witness ==
    /\ script = "temp" /\ backoff_factor = 3 /\ retries = 3
    /\ call_pc = "returned" /\ returned.kind = "None"
    /\ Len(events) = 5
    /\ events[2] = Slept(1) /\ events[4] = Slept(3)

\* an entry get_input may return when the input is required
Acceptable(raw) == strip(raw) # "" /\ validate(args.validator, strip(raw))

\* C15: get_input with required=True returns only a non-empty value that the
\* validator, if there is one, accepts; every empty or rejected entry is
\* followed by another prompt, and the value returned is the first
\* acceptable entry.
C15_RequiredInputAcceptable ==
    (fn = "get_input" /\ args.required) =>
        /\ (wpc = "returned") =>
              /\ ret.text # ""
              /\ validate(args.validator, ret.text)
              /\ asked # <<>> =>
                    /\ ret.text = strip(asked[Len(asked)])
                    /\ \A i \in 1..(Len(asked) - 1) : ~Acceptable(asked[i])
        /\ (wpc = "called") => \A i \in 1..Len(asked) : ~Acceptable(asked[i])

\* the place of the first empty line among the lines entered (one past the
\* last line if none is empty), and the lines before it
FirstEmpty(s) ==
    IF \E i \in 1..Len(s) : strip(s[i]) = ""
    THEN CHOOSE i \in 1..Len(s) :
            strip(s[i]) = "" /\ \A j \in 1..(i - 1) : strip(s[j]) # ""
    ELSE Len(s) + 1

LinesBefore(s) == [i \in 1..(FirstEmpty(s) - 1) |-> strip(s[i])]

\* C16 as stated: whatever the mode, get_multiline_input returns, in entry
\* order, exactly the non-empty lines entered before the first empty line
\* and reads nothing after that line.
C16_LinesAsStated ==
    (fn = "get_multiline_input" /\ wpc = "returned") =>
        /\ ret.list = LinesBefore(asked)
        /\ FirstEmpty(asked) >= Len(asked)

\* C16 amended: with test_mode off, get_multiline_input returns, in entry
\* order, exactly the non-empty lines (stripped) entered before the first
\* empty line and reads nothing after that line.
C16_Lines ==
    (fn = "get_multiline_input" /\ ~generator.test_mode) =>
        /\ (wpc = "returned") =>
              /\ ret.list = LinesBefore(asked)
              /\ FirstEmpty(asked) >= Len(asked)
        /\ (wpc = "called") => FirstEmpty(asked) = Len(asked) + 1

\* two lines and then a blank one
C16_Witness ==
    /\ fn = "get_multiline_input" /\ ~generator.test_mode /\ wpc = "returned"
    /\ Len(asked) = 3 /\ asked[3] = "  "
    /\ ret.list = <<"ok", "High">>

\* C17: a KeyboardInterrupt raised at any point after the user confirmed the
\* start of run makes run print "Process cancelled by user." as its last
\* output and return, with nothing generated, saved or previewed after it.
C17_InterruptCancelsRun ==
    (fn = "run") =>
        \A i \in 1..Len(trace) :
            (trace[i] = "KeyboardInterrupt" /\ \E j \in 1..(i - 1) : trace[j] = "start")
                => /\ wpc = "returned"
                   /\ trace[Len(trace)] = "Process cancelled by user."
                   /\ \A j \in (i + 1)..Len(trace) :
                         trace[j] \notin {"generated", "saved", "previewed"}

StepNames == {DataSteps[i] : i \in 1..3} \cup {DetailSteps[i] : i \in 1..3}

\* the collection steps begun so far, and the number of progress updates
\* among the first n events
StepsBegun == SelectSeq(trace, LAMBDA ev : ev \in StepNames)

Updates(n) == Len(SelectSeq(SubSeq(trace, 1, n), LAMBDA ev : ev = "progress.update"))

\* the progress display was stopped when event i took place
DisplayStopped(i) ==
    LET shown == {j \in 1..(i - 1) : trace[j] \in {"progress.start", "progress.stop"}}
    IN  /\ shown # {}
        /\ trace[CHOOSE j \in shown : \A k \in shown : k <= j] = "progress.stop"

\* C20: in interactive mode the collectors run their three steps in the
\* fixed order, every step runs while the progress display is stopped, and
\* the progress task is advanced once after each step, three times against
\* a total of 3.
C20_ProgressAroundSteps ==
    (fn = "run" /\ ~generator.test_mode) =>
        /\ Len(StepsBegun) <= 6
        /\ StepsBegun = SubSeq(DataSteps \o DetailSteps, 1, Len(StepsBegun))
        /\ \A i \in 1..Len(trace) :
              trace[i] \in StepNames
                  => /\ DisplayStopped(i)
                     /\ Updates(i) = Len(SelectSeq(SubSeq(trace, 1, i - 1),
                                                   LAMBDA ev : ev \in StepNames))
        /\ \A i \in 1..Len(trace) :
              trace[i] = "Project data collection completed." => Updates(i) = 3
        /\ \A i \in 1..Len(trace) :
              trace[i] = "Project details collection completed." => Updates(i) = 6
        /\ (StepsBegun # <<>>) => generator.total = 3

\* both collectors are through, with deliverables entered
C20_Witness ==
    /\ fn = "run" /\ ~generator.test_mode /\ wpc = "generating"
    /\ generator.deliverables = 2
    /\ Updates(Len(trace)) = 6

\* the API calls a method of the generator made, and those that returned
CreateCalls == SelectSeq(trace, LAMBDA ev : ev.op = "create")

CreateReturns == SelectSeq(trace, LAMBDA ev : ev.op = "create" /\ ev.raised = "")

\* C18: generate_wbs_table returns exactly the content of the response when
\* a client is configured and the call succeeds; with no client, or when the
\* call raises, it gives what generate_basic_wbs_table gives and the error of
\* the call is not propagated.
C18_TableOrFallback ==
    (fn = "generate_wbs_table" /\ wpc # "called") =>
        /\ Len(CreateCalls) <= 1
        /\ (generator.openai_client = "None") => CreateCalls = <<>>
        /\ (CreateReturns # <<>>)
              => /\ wpc = "returned"
                 /\ ret = ReturnedValue(CreateReturns[1].content)
        /\ (generator.openai_client = "None" \/ (CreateCalls # <<>> /\ CreateReturns = <<>>))
              => /\ ret = generate_basic_wbs_table(generator)
                 /\ ret.text \notin ApiErrors

\* the call raised and the basic table of two deliverables was returned
C18_Witness ==
    /\ fn = "generate_wbs_table" /\ wpc = "returned"
    /\ generator.openai_client = "client"
    /\ CreateCalls # <<>> /\ CreateReturns = <<>>
    /\ Len(generator.deliverables) = 2
    /\ ret.kind = "list" /\ ret.list[1] = <<1, 0>> /\ Len(ret.list) >= 3

\* C19: enrich_wbs_with_ai never loses the original document: on success the
\* result is the original content followed by the "## AI-Enhanced Project
\* Analysis" section with the analysis; with no client, or when the call
\* raises, it is the original content unchanged.
C19_OriginalKept ==
    (fn = "enrich_wbs_with_ai" /\ wpc # "called") =>
        /\ wpc = "returned" /\ ret.kind = "list"
        /\ Len(ret.list) >= Len(args.wbs_content)
        /\ SubSeq(ret.list, 1, Len(args.wbs_content)) = args.wbs_content
        /\ (generator.openai_client = "None") => CreateCalls = <<>>
        /\ (CreateReturns # <<>>)
              => ret.list = args.wbs_content
                              \o <<"\n\n## AI-Enhanced Project Analysis\n\n",
                                   CreateReturns[1].content>>
        /\ (generator.openai_client = "None" \/ (CreateCalls # <<>> /\ CreateReturns = <<>>))
              => ret.list = args.wbs_content

\* a document enriched by a call that succeeded
C19_Witness ==
    /\ fn = "enrich_wbs_with_ai" /\ wpc = "returned"
    /\ args.wbs_content # <<>>
    /\ CreateReturns # <<>>
    /\ Len(ret.list) = Len(args.wbs_content) + 2


\* C21: display_resources of Python and of Java returns the resources
\* string of the language
C21_ReturnsResources ==
    /\ language = "Python"
         => display_result = "Python resources: Tutorial, Examples, Tips"
    /\ language = "Java"
         => display_result = "Java resources: Tutorial, Examples, Tips"

\* review_ticket has asked the questions of a ticket
TicketAsked == pc \in {"continue", "returned", "raised"} \/ reviewed_items # <<>>

\* C22: when review_ticket calls calculate_score, the answers hold one
\* boolean per question of QUESTIONS, in question order, also when two
\* questions have the same text
C22_OneAnswerPerQuestion ==
    TicketAsked =>
        /\ Len(answers) = Len(QUESTIONS)
        /\ \A i \in 1..Len(answers) :
              answers[i].key = QUESTIONS[i].text /\ answers[i].value \in BOOLEAN

\* the step in which main() handles the response of call_gpt4
Responded == main_pc = "call" /\ main_pc' = "poll"

\* a response was obtained, it held a JSON object, and at least one of its
\* files was written
GenerationSucceeded == gpt_response' = "files"

\* C23: the polling loop clears the input file only after a generation
\* that succeeded; on every failure path it leaves the file as it is
C23_ClearedOnlyAfterSuccess ==
    [][Responded /\ ~GenerationSucceeded => input_file' = input_file]_vars

\* C24: mini.py and temp.py call the API only for a file whose
\* modification time is greater than the last one recorded and whose
\* stripped content is not empty, and no state of the file is sent twice:
\* instructions are sent again only after the file was modified again
C24_OneCallPerModification ==
    program \in {"mini", "temp"} =>
        /\ \A i \in 1..Len(sends) :
              sends[i].mtime > sends[i].last /\ sends[i].text # ""
        /\ \A i, j \in 1..Len(sends) :
              i < j => sends[i].version # sends[j].version

\* the input file holds instructions other than the ones main() read and
\* sent: the user wrote them after the loop read the file
UnprocessedInstructions ==
    input_file.exists /\ strip(input_file.content) \notin {"", instructions}

\* C25: with the user writing the input file while the loop runs, the
\* clearing write of main() never erases instructions written after the
\* loop read the file, so that no instruction is lost before it is sent
C25_NoInstructionLost ==
    [][Responded /\ input_file' # input_file => ~UnprocessedInstructions]_vars

\* the calendar day after a date <<y, m, d>>
NextDay(date) ==
    IF date[3] < days_in_month(date[1], date[2]) THEN <<date[1], date[2], date[3] + 1>>
    ELSE IF date[2] < 12 THEN <<date[1], date[2] + 1, 1>>
    ELSE <<date[1] + 1, 1, 1>>

\* the date k days after a date
RECURSIVE DaysAfter(_, _)
DaysAfter(date, k) == IF k = 0 THEN date ELSE DaysAfter(NextDay(date), k - 1)

\* a date is not later than another
NotLater(a, b) ==
    \/ a[1] < b[1]
    \/ a[1] = b[1] /\ a[2] < b[2]
    \/ a[1] = b[1] /\ a[2] = b[2] /\ a[3] <= b[3]

\* the row of the returned table with task id i.j
RowOf(i, j) == CHOOSE row \in {ret.list[r] : r \in 1..Len(ret.list)} : row.id = <<i, j>>

\* the weeks typed for the k-th deliverable
WeeksOf(k) == CHOOSE w \in 0..9 : Digits[w + 1] = generator.deliverables[k].duration

ScheduleReturned == fn = "generate_basic_wbs_table" /\ wpc = "returned"

\* C26: in the table of generate_basic_wbs_table a deliverable of w weeks
\* spans 5 * w days; its n subtasks last (5 * w) div n days each and follow
\* one another from the deliverable's start date, each within the
\* deliverable's interval; the first deliverable starts on the project
\* start date and each next one on the end date of the one before
C26_Schedule ==
    ScheduleReturned =>
        \A k \in 1..Len(generator.deliverables) :
            LET days == 5 * WeeksOf(k)
                n == generator.deliverables[k].subtasks
                parent == RowOf(k + 1, 0)
            IN  /\ parent.duration = days
                /\ parent.end = DaysAfter(parent.start, days)
                /\ parent.start = IF k = 1 THEN generator.project_info.start_date
                                  ELSE RowOf(k, 0).end
                /\ \A j \in 1..n :
                      LET subtask == RowOf(k + 1, j)
                      IN  /\ subtask.duration = days \div n
                          /\ subtask.end = DaysAfter(subtask.start, days \div n)
                          /\ subtask.start = IF j = 1 THEN parent.start
                                             ELSE RowOf(k + 1, j - 1).end
                          /\ NotLater(parent.start, subtask.start)
                          /\ NotLater(subtask.start, subtask.end)
                          /\ NotLater(subtask.end, parent.end)

\* a table of two deliverables from 20 February 2024: the second one, of
\* one week with two subtasks of two days, ends on 1 March
C26_Witness ==
    /\ ScheduleReturned
    /\ generator.project_info.start_date = <<2024, 2, 20>>
    /\ Len(generator.deliverables) = 2
    /\ generator.deliverables[2] = [duration |-> "1", subtasks |-> 2]
    /\ RowOf(3, 0).end = <<2024, 3, 1>>
    /\ RowOf(3, 2).duration = 2
    /\ RowOf(3, 2).end = <<2024, 2, 29>>

\* the keys a reviewed ticket always carries
Reviewed(ticket) ==
    {"grooming_score", "readiness_level", "evaluation_answers"} \subseteq ticket.has

\* all prompts "Continue to next ticket?" but the last were confirmed
ConfirmedBefore(k) == \A n \in 1..(k - 1) : continue_answers[n]

BacklogReturned == pc \in {"returned", "reported"}

\* C27: review_backlog returns the first tickets of the issue list, in
\* issue order and each reviewed; the prompt to continue is asked after
\* every reviewed ticket but the last of the list, the first declined
\* prompt ends the review, and no later ticket is reviewed or returned
C27_ReviewedPrefix ==
    LET done == Len(reviewed_items)
        prompted == Len(continue_answers)
    IN  /\ \A n \in 1..done : reviewed_items[n] = n /\ Reviewed(issues[n])
        /\ \A i \in (done + 1)..Len(issues) : issues[i].has = {}
        /\ pc = "continue" => done < Len(issues) /\ prompted = done - 1
                                /\ ConfirmedBefore(done)
        /\ pc \in {"review", "raised"} => prompted = done /\ ConfirmedBefore(done + 1)
        /\ BacklogReturned =>
              IF done = Len(issues)
              THEN prompted = done - 1 /\ ConfirmedBefore(done)
              ELSE prompted = done /\ ConfirmedBefore(done)
                     /\ ~continue_answers[done]

\* of three issues two were reviewed and the second prompt was declined
C27_Witness ==
    /\ pc = "returned"
    /\ Len(issues) = 3
    /\ reviewed_items = <<1, 2>>
    /\ continue_answers = <<TRUE, FALSE>>
    /\ Reviewed(issues[2]) /\ issues[3].has = {}

\* the returned items whose recorded readiness level is one of levels
Recorded(levels) ==
    Cardinality({n \in 1..Len(reviewed_items) :
                    issues[reviewed_items[n]].readiness_level \in levels})

\* C28: the three counts of the report's summary add up to the total of
\* items reviewed, and each item is counted in the band of the readiness
\* level recorded for it
C28_SummaryPartitions ==
    pc = "reported" =>
        /\ report.total = Len(reviewed_items)
        /\ report.ready + report.minor + report.major = report.total
        /\ report.ready = Recorded({"Ready for Sprint"})
        /\ report.minor = Recorded({"Minor Refinements Needed"})
        /\ report.major = Recorded({"Needs Discussion", "Significant Refinement Required"})

\* a report of three items, one in each band
C28_Witness ==
    /\ pc = "reported"
    /\ report = [total |-> 3, ready |-> 1, minor |-> 1, major |-> 1]

\* C29: a ticket review_ticket has returned carries story points exactly
\* when its score is at least 75, that is when its readiness level is one
\* of the two top bands; a ticket scored below 75 gets no story points
C29_PointsFromScore75 ==
    \A n \in 1..Len(reviewed_items) :
        LET ticket == issues[reviewed_items[n]]
        IN  /\ "story_points" \in ticket.has <=> FGeq(ticket.grooming_score, F75)
            /\ "story_points" \in ticket.has <=>
                  ticket.readiness_level \in {"Ready for Sprint", "Minor Refinements Needed"}
            /\ "story_points" \in ticket.has => ticket.story_points \in StoryPointChoices

\* two reviewed tickets: one scored below 50 without story points, one scored
\* 89.99999999999999 with an estimate of 13
C29_Witness ==
    /\ Len(reviewed_items) = 2
    /\ issues[1].readiness_level = "Significant Refinement Required"
    /\ "story_points" \notin issues[1].has
    /\ issues[2].readiness_level = "Minor Refinements Needed"
    /\ "story_points" \in issues[2].has /\ issues[2].story_points = 13

\* self.total_questions, counted once in __init__
TotalQuestions == count_total_questions(domains)

\* C30: answered_questions stays within 0..total_questions in every state,
\* so that the progress shown never exceeds 100%, and equals
\* total_questions when run_assessment has returned, however many times
\* run_assessment is called on the tool object
C30_AnsweredWithinTotal ==
    /\ 0 <= answered_questions /\ answered_questions <= TotalQuestions
    /\ at.phase = "returned" => answered_questions = TotalQuestions
====
